---- MODULE Spec2Model ----
(***************************************************************************)
(* Hortator agentic runtime: the tool-calling loop (loop.py), its          *)
(* checkpoint store (checkpoint.py), the process entry point (main.py)     *)
(* and the tool dispatcher (tool_executor.py).                             *)
(*                                                                         *)
(* Texts are sequences of one-character strings, so that split, strip,     *)
(* startswith and slicing are computed as Python computes them.            *)
(***************************************************************************)
EXTENDS Integers, Sequences, FiniteSets, TLC

VARIABLES
    \* ---- the process (main.py) and the loop (loop.py) ----
    pc,                 \* position of the process: init, top, llm, tools, returned, exited
    killed,             \* main.py _killed
    checkpoint,         \* main(): the value load_checkpoint returned
    child_results,      \* main(): the value load_child_results returned
    resume_context,     \* main(): the text _build_resume_context returned
    state_file,         \* the file /memory/state.json
    task,               \* the file /inbox/task.json
    result_file,        \* the file /outbox/result.json
    messages,           \* agentic_loop: messages
    iteration,          \* agentic_loop: iteration
    total_in,           \* agentic_loop: total_in
    total_out,          \* agentic_loop: total_out
    max_tokens_budget,  \* agentic_loop: max_tokens_budget
    spawned_children,   \* agentic_loop: spawned_children
    pending_children,   \* agentic_loop: pending_children
    decisions,          \* agentic_loop: decisions
    artifacts,          \* agentic_loop: artifacts
    tool_queue,         \* agentic_loop: tool calls of the turn not yet dispatched
    result,             \* the LoopResult agentic_loop returned
    tools,              \* main(): the tool names build_tools returned
    \* ---- history of the run (not program state) ----
    life,               \* number of the process lifetime of the task
    calls,              \* model calls issued in this lifetime
    dispatched,         \* execute_tool calls made in this lifetime
    ckpt_writes,        \* save_checkpoint calls made in this lifetime
    spent,              \* tokens reported over all lifetimes of the task
    reported,           \* prompt and completion tokens reported in this lifetime
    signal_at,          \* where the loop was when the signal handler first ran
    \* ---- one run_shell dispatch (tool_executor.py) ----
    command,            \* args["command"]
    allowed_env,        \* HORTATOR_ALLOWED_COMMANDS
    denied_env,         \* HORTATOR_DENIED_COMMANDS
    shell_result,       \* the outcome _exec_run_shell returned
    subprocesses,       \* commands handed to subprocess.run(shell=True)
    \* ---- the world around the process ----
    usage_file,         \* the file /outbox/usage.json
    crd_report,         \* what report_to_crd handed to `hortator report`
    fs,                 \* the other files of the agent's filesystem, by path
    fs_ops,             \* filesystem calls made by read_file and write_file
    controller_cmds,    \* `hortator` commands run by the delegation tools
    state,              \* the dict handed to save_checkpoint by a direct caller
    external,           \* what the world answers to the one tool call dispatched
    \* ---- the SDK's stream parser (_streaming.py) ----
    response,           \* the lines response.iter_lines() hands out
    next_line,          \* how many of them the for loop has taken
    events,             \* the values the generator has yielded
    sse_pc              \* the generator: idle, iter, aiter, returned, raised

procVars == <<pc, killed, checkpoint, child_results, resume_context, state_file,
              task, result_file>>
loopVars == <<messages, iteration, total_in, total_out, max_tokens_budget,
              spawned_children, pending_children, decisions, artifacts,
              tool_queue, result, tools>>
histVars == <<life, calls, dispatched, ckpt_writes, spent, reported, signal_at>>
shellVars == <<command, allowed_env, denied_env, shell_result, subprocesses>>
worldVars == <<usage_file, crd_report, fs, fs_ops, controller_cmds, state, external>>
sseVars == <<response, next_line, events, sse_pc>>
vars == <<procVars, loopVars, histVars, shellVars, worldVars, sseVars>>

\* no stream is being read
SseIdle ==
    /\ response = <<>>
    /\ next_line = 0
    /\ events = <<>>
    /\ sse_pc = "idle"

(***************************************************************************)
(* Bounds of the exploration.                                              *)
(***************************************************************************)
MaxCmdLen == 4
MaxCalls == 2
MaxLives == 2
MaxTokens == 2

(***************************************************************************)
(* Python str operations on texts.                                         *)
(***************************************************************************)
Min(a, b) == IF a <= b THEN a ELSE b

IsSpace(ch) == ch = " "

RECURSIVE LStrip(_)
LStrip(s) ==
    IF s # <<>> /\ IsSpace(Head(s)) THEN LStrip(Tail(s)) ELSE s

RECURSIVE RStrip(_)
RStrip(s) ==
    IF s # <<>> /\ IsSpace(s[Len(s)]) THEN RStrip(SubSeq(s, 1, Len(s) - 1)) ELSE s

\* str.strip()
Strip(s) == RStrip(LStrip(s))

\* str.split(sep) for a one-character sep: empty pieces are kept
RECURSIVE SplitOn(_, _)
SplitOn(s, sep) ==
    IF \E i \in 1..Len(s) : s[i] = sep
    THEN LET i == CHOOSE k \in 1..Len(s) :
                      s[k] = sep /\ \A j \in 1..(k - 1) : s[j] # sep
         IN  <<SubSeq(s, 1, i - 1)>> \o SplitOn(SubSeq(s, i + 1, Len(s)), sep)
    ELSE <<s>>

\* str.split(): runs of whitespace separate, empty pieces are dropped
RECURSIVE SplitWords(_)
SplitWords(s) ==
    LET t == LStrip(s) IN
    IF t = <<>> THEN <<>>
    ELSE IF \E i \in 1..Len(t) : IsSpace(t[i])
         THEN LET i == CHOOSE k \in 1..Len(t) :
                           IsSpace(t[k]) /\ \A j \in 1..(k - 1) : ~IsSpace(t[j])
              IN  <<SubSeq(t, 1, i - 1)>> \o SplitWords(SubSeq(t, i + 1, Len(t)))
         ELSE <<t>>

\* str.startswith(prefix)
StartsWith(s, prefix) ==
    Len(prefix) <= Len(s) /\ SubSeq(s, 1, Len(prefix)) = prefix

\* x in list
InList(x, list) == \E i \in 1..Len(list) : list[i] = x

RECURSIVE SelectNonEmptyStripped(_)
SelectNonEmptyStripped(list) ==
    IF list = <<>> THEN <<>>
    ELSE IF Strip(Head(list)) # <<>>
         THEN <<Strip(Head(list))>> \o SelectNonEmptyStripped(Tail(list))
         ELSE SelectNonEmptyStripped(Tail(list))

(***************************************************************************)
(* Shell policy: tool_executor.py                                          *)
(***************************************************************************)
NoError == [kind |-> "none", cmd |-> <<>>]

\* [c.strip() for c in raw.split(",") if c.strip()] if raw else []
PolicyList(raw) ==
    IF raw = <<>> THEN <<>> ELSE SelectNonEmptyStripped(SplitOn(raw, ","))

\* the first word of the command and the first word after each pipe
RECURSIVE BaseCommandsOf(_)
BaseCommandsOf(parts) ==
    IF parts = <<>> THEN <<>>
    ELSE LET words == SplitWords(Strip(Head(parts))) IN
         (IF words # <<>> THEN <<words[1]>> ELSE <<>>) \o BaseCommandsOf(Tail(parts))

BaseCommands(cmd) == BaseCommandsOf(SplitOn(cmd, "|"))

\* the verdict of the per-command loop body, for the commands from index i on
RECURSIVE PolicyScan(_, _, _, _, _)
PolicyScan(cmd, bases, i, allowed, denied) ==
    IF i > Len(bases) THEN NoError
    ELSE IF allowed # <<>> /\ ~InList(bases[i], allowed)
         THEN [kind |-> "not_allowed_by_policy", cmd |-> bases[i]]
         ELSE IF \E d \in 1..Len(denied) :
                     StartsWith(Strip(cmd), denied[d]) \/ bases[i] = denied[d]
              THEN [kind |-> "denied_by_policy", cmd |-> bases[i]]
              ELSE PolicyScan(cmd, bases, i + 1, allowed, denied)

\* _check_shell_command_policy: NoError stands for None
CheckShellCommandPolicy(cmd, allowed_raw, denied_raw) ==
    IF allowed_raw = <<>> /\ denied_raw = <<>> THEN NoError
    ELSE PolicyScan(cmd, BaseCommands(cmd), 1,
                    PolicyList(allowed_raw), PolicyList(denied_raw))

\* command.strip().split()[0] if command.strip() else ""
FirstWord(cmd) ==
    IF Strip(cmd) # <<>> THEN SplitWords(Strip(cmd))[1] ELSE <<>>

\* os.environ.get(name, "").split(",")
EnvList(raw) == SplitOn(raw, ",")

\* allowed and allowed != ['']
ListConfigured(list) == list # <<>> /\ list # << <<>> >>

\* the filter of _exec_run_shell: NoError when the command passes
RunShellFilter(cmd, allowed_raw, denied_raw) ==
    LET base_cmd == FirstWord(cmd)
        allowed == EnvList(allowed_raw)
        denied == EnvList(denied_raw)
    IN  IF ListConfigured(allowed) /\ ~InList(base_cmd, allowed)
        THEN [kind |-> "not_in_allowed_list", cmd |-> base_cmd]
        ELSE IF ListConfigured(denied) /\ InList(base_cmd, denied)
             THEN [kind |-> "denied_by_policy", cmd |-> base_cmd]
             ELSE NoError

\* what subprocess.run can do with a command that passed the filter
ProcessOutcomes == {"exit_zero", "exit_nonzero", "timeout"}

NoShellResult == [success |-> FALSE, error |-> NoError, exit_code |-> 0, ran |-> FALSE]

\* _exec_run_shell: the outcome returned, `ran` telling whether a process was started
ExecRunShell(cmd, allowed_raw, denied_raw, outcome) ==
    IF cmd = <<>>
    THEN [success |-> FALSE, error |-> [kind |-> "command_required", cmd |-> <<>>],
          exit_code |-> 0, ran |-> FALSE]
    ELSE LET verdict == RunShellFilter(cmd, allowed_raw, denied_raw) IN
         IF verdict # NoError
         THEN [success |-> FALSE, error |-> verdict, exit_code |-> 0, ran |-> FALSE]
         ELSE IF outcome = "timeout"
              THEN [success |-> FALSE, error |-> [kind |-> "timed_out", cmd |-> <<>>],
                    exit_code |-> -1, ran |-> TRUE]
              ELSE [success |-> outcome = "exit_zero", error |-> NoError,
                    exit_code |-> IF outcome = "exit_zero" THEN 0 ELSE 1,
                    ran |-> TRUE]

(***************************************************************************)
(* Checkpoint store: checkpoint.py                                         *)
(***************************************************************************)
\* the dict has no "version" key
NoVersion == -1

NoData == [version |-> 0, taskId |-> "", phase |-> "",
           completedChildren |-> <<>>, pendingChildren |-> <<>>,
           decisions |-> <<>>, accumulatedContext |-> <<>>, plan |-> <<>>]

\* the file does not exist
MissingFile == [kind |-> "missing", data |-> NoData]

\* the file holds text that json.load rejects (a write that failed half way)
GarbageFile == [kind |-> "garbage", data |-> NoData]

\* the file holds JSON that is not an object (a list, a number, a string)
JsonOtherFile == [kind |-> "json_other", data |-> NoData]

\* the file holds bytes that are not text in the locale's encoding
UndecodableFile == [kind |-> "undecodable", data |-> NoData]

\* the file holds this JSON object
JsonObjectFile(data) == [kind |-> "json_object", data |-> data]

\* load_checkpoint returned None
NoCheckpoint == [loaded |-> FALSE, raised |-> FALSE, data |-> NoData]

\* load_checkpoint did not return: an exception left it
LoadRaised == [loaded |-> FALSE, raised |-> TRUE, data |-> NoData]

\* load_checkpoint: only json.JSONDecodeError and OSError are caught, and the
\* UnicodeDecodeError of f.read() is neither
LoadCheckpoint(file) ==
    IF file.kind = "missing" THEN NoCheckpoint
    ELSE IF file.kind = "undecodable" THEN LoadRaised
    ELSE IF file.kind = "garbage" THEN NoCheckpoint
    ELSE IF file.kind # "json_object" THEN NoCheckpoint
    ELSE IF file.data.version # 1 THEN NoCheckpoint
    ELSE [loaded |-> TRUE, raised |-> FALSE, data |-> file.data]

\* what the operating system can do with the write
DiskOutcomes == {"written", "open_failed", "write_failed"}

\* state.setdefault("version", 1)
SetDefaultVersion(dict) ==
    IF dict.version = NoVersion THEN [dict EXCEPT !.version = 1] ELSE dict

\* save_checkpoint: the file afterwards (an OSError is caught and only logged)
SaveCheckpoint(file, dict, disk) ==
    IF disk = "written" THEN JsonObjectFile(SetDefaultVersion(dict))
    ELSE IF disk = "write_failed" THEN GarbageFile
    ELSE file

(***************************************************************************)
(* Suspension checkpoint: loop.py _save_waiting_checkpoint                 *)
(***************************************************************************)
\* text[:500]
\* the text is kept whole
WholeText(text) == text

First500(text) == SubSeq(text, 1, Min(500, Len(text)))

\* the walk over reversed(messages): it keeps the texts of the assistant
\* messages that have one, newest first, each put in front of those kept, and
\* stops at three; what it returns is the last three of them, oldest first
Accumulate(msgs) ==
    LET idx == {i \in 1..Len(msgs) :
                   msgs[i].role = "assistant" /\ msgs[i].content # <<>>}
        kept == {i \in idx : Cardinality({j \in idx : j > i}) < 3}
        nth(k) == CHOOSE i \in kept : Cardinality({j \in kept : j < i}) = k - 1
    IN  [k \in 1..Cardinality(kept) |-> First500(msgs[nth(k)].content)]

\* sep.join(list)
RECURSIVE Join(_, _)
Join(list, sep) ==
    IF list = <<>> THEN <<>>
    ELSE IF Len(list) = 1 THEN list[1]
    ELSE list[1] \o sep \o Join(Tail(list), sep)

ContextSeparator == <<"\n", "-", "-", "-", "\n">>

\* every spawned child is listed as completed
CompletedOfAll(spawned, pending) ==
    [i \in 1..Len(spawned) |-> [name |-> spawned[i], status |-> "Completed"]]

RECURSIVE CompletedOf(_, _)
CompletedOf(spawned, pending) ==
    IF spawned = <<>> THEN <<>>
    ELSE (IF ~InList(Head(spawned), pending)
          THEN <<[name |-> Head(spawned), status |-> "Completed"]>>
          ELSE <<>>) \o CompletedOf(Tail(spawned), pending)

PendingOf(pending) ==
    [i \in 1..Len(pending) |-> [name |-> pending[i], status |-> "Running"]]

\* the checkpoint logs a decision for every child spawned
WaitingCheckpointWithLog(task_name, spawned, pending, decs, msgs) ==
    [version |-> 1, taskId |-> task_name, phase |-> "waiting",
     completedChildren |-> CompletedOf(spawned, pending),
     pendingChildren |-> PendingOf(pending),
     decisions |-> decs \o spawned,
     accumulatedContext |-> Join(Accumulate(msgs), ContextSeparator),
     plan |-> <<>>]

\* the dict _save_waiting_checkpoint hands to save_checkpoint
WaitingCheckpoint(task_name, spawned, pending, decs, msgs) ==
    [version |-> 1, taskId |-> task_name, phase |-> "waiting",
     completedChildren |-> CompletedOf(spawned, pending),
     pendingChildren |-> PendingOf(pending),
     decisions |-> decs,
     accumulatedContext |-> Join(Accumulate(msgs), ContextSeparator),
     plan |-> <<>>]

(***************************************************************************)
(* Resume text: main.py _build_resume_context.  The text is the sequence   *)
(* of its parts (the strings that "\n".join puts together).                *)
(***************************************************************************)
\* a key the dict does not have
Absent == "<absent>"

Part(kind, name, status, text) ==
    [kind |-> kind, name |-> name, status |-> status, text |-> text]

\* dict.get(key, default) on a child result
GetOr(value, default) == IF value = Absent THEN default ELSE value

NewChildPart(entry) ==
    Part("new_child", entry.name,
         GetOr(entry.result.status, "unknown"),
         GetOr(entry.result.summary, GetOr(entry.result.output, "No output")))

PrevChildPart(child) == Part("prev_child", child.name, child.status, <<>>)

\* the text lists the children still pending beside the completed ones
BuildResumeContextAllChildren(ckpt, results) ==
    <<Part("intro", "", "", <<>>)>>
    \o (IF results # <<>>
        THEN <<Part("new_header", "", "", <<>>)>>
             \o [i \in 1..Len(results) |-> NewChildPart(results[i])]
        ELSE <<>>)
    \o [i \in 1..Len(ckpt.completedChildren) |-> PrevChildPart(ckpt.completedChildren[i])]
    \o [i \in 1..Len(ckpt.pendingChildren) |-> PrevChildPart(ckpt.pendingChildren[i])]
    \o <<Part("outro", "", "", <<>>)>>

BuildResumeContext(ckpt, results) ==
    <<Part("intro", "", "", <<>>)>>
    \o (IF ckpt.plan # <<>> THEN <<Part("plan", "", "", ckpt.plan)>> ELSE <<>>)
    \o (IF ckpt.decisions # <<>>
        THEN <<Part("decisions", "", "", ckpt.decisions)>> ELSE <<>>)
    \o (IF ckpt.accumulatedContext # <<>>
        THEN <<Part("context", "", "", ckpt.accumulatedContext)>> ELSE <<>>)
    \o (IF results # <<>>
        THEN <<Part("new_header", "", "", <<>>)>>
             \o [i \in 1..Len(results) |-> NewChildPart(results[i])]
        ELSE <<>>)
    \o (IF ckpt.completedChildren # <<>>
        THEN <<Part("prev_header", "", "", <<>>)>>
             \o [i \in 1..Len(ckpt.completedChildren) |->
                    PrevChildPart(ckpt.completedChildren[i])]
        ELSE <<>>)
    \o <<Part("outro", "", "", <<>>)>>

(***************************************************************************)
(* Tool catalogue: tools.py build_tools                                    *)
(***************************************************************************)
SpawnTools == <<"spawn_task", "check_status", "get_result", "cancel_task">>
ShellTools == <<"run_shell">>

\* build_tools: the names of the schemas handed to the model
BuildTools(capabilities) ==
    <<"read_file", "write_file">>
    \o (IF "spawn" \in capabilities THEN SpawnTools ELSE <<>>)
    \o (IF "shell" \in capabilities THEN ShellTools ELSE <<>>)

(***************************************************************************)
(* Tool dispatch: tool_executor.py execute_tool and its handlers           *)
(***************************************************************************)
\* the arguments of a tool call: `object` tells whether json.loads gave a dict,
\* `typed` whether the values given are strings (when not, they are numbers);
\* <<>> and "" stand for a key that is absent or empty
NoArgs == [object |-> TRUE, typed |-> TRUE, prompt |-> <<>>, wait |-> FALSE,
           task_name |-> "", name |-> "", command |-> <<>>, path |-> <<>>,
           content |-> <<>>]

\* the outcome dict of a handler; `raised` when an exception left it instead
ToolResult(success, error, task_name, async, sentinel) ==
    [success |-> success, error |-> error, task_name |-> task_name,
     async |-> async, checkpoint_and_wait |-> sentinel, path |-> <<>>,
     raised |-> FALSE]

Failure(error) == ToolResult(FALSE, error, "", FALSE, FALSE)

Success == ToolResult(TRUE, "", "", FALSE, FALSE)

Raised == [Failure("") EXCEPT !.raised = TRUE]

\* what the world does with the operation a handler starts: the subprocess
\* (exit status, or subprocess.run raising for a timeout or an OSError), its
\* standard output (a JSON object naming `name`, JSON of another shape, or
\* no JSON), and the disk
External(kind, stdout, name, disk) ==
    [kind |-> kind, stdout |-> stdout, name |-> name, disk |-> disk]
SpawnRaises == External("raises", "object", "", "written")
SpawnExitNonzero == External("exit_nonzero", "object", "", "written")
SpawnExitZero(name) == External("exit_zero", "object", name, "written")

\* subprocess.run(["hortator", ...]) raises: a timeout, an OSError, or a
\* TypeError for an argument that is not a string
RunRaises(args, ext) == ~args.typed \/ ext.kind \in {"raises", "timeout"}

\* _exec_spawn_task; ext.name is output.get("name") or output.get("task", "")
ExecSpawnTask(args, ext) ==
    IF args.prompt = <<>> THEN Failure("prompt is required")
    ELSE IF RunRaises(args, ext) THEN Raised
    ELSE IF ext.kind = "exit_nonzero" THEN Failure("stderr")
    ELSE IF ext.stdout = "json_other" THEN Raised
    ELSE ToolResult(TRUE, "", IF ext.stdout = "object" THEN ext.name ELSE "",
                    ~args.wait, FALSE)

\* _exec_check_status
ExecCheckStatus(args, ext) ==
    IF args.task_name = "" THEN Failure("task_name is required")
    ELSE IF RunRaises(args, ext) THEN Raised
    ELSE IF ext.kind = "exit_nonzero" THEN Failure("stderr")
    ELSE IF ext.stdout = "json_other" THEN Raised
    ELSE Success

\* _exec_get_result
ExecGetResult(args, ext) ==
    IF args.task_name = "" THEN Failure("task_name is required")
    ELSE IF RunRaises(args, ext) THEN Raised
    ELSE IF ext.kind = "exit_nonzero" THEN Failure("stderr")
    ELSE IF ext.stdout = "not_json" THEN Success
    ELSE IF ext.stdout = "json_other" THEN Raised
    ELSE Success

\* _exec_cancel_task
ExecCancelTask(args, ext) ==
    IF args.task_name = "" THEN Failure("task_name is required")
    ELSE IF RunRaises(args, ext) THEN Raised
    ELSE IF ext.kind = "exit_nonzero" THEN Failure("stderr")
    ELSE Success

\* _exec_checkpoint_and_wait
ExecCheckpointAndWait(args) == ToolResult(TRUE, "", "", FALSE, TRUE)

\* _exec_list_roles
ExecListRoles(args, ext) ==
    IF ext.kind \in {"raises", "timeout"} THEN Raised
    ELSE IF ext.kind = "exit_nonzero" THEN Failure("stderr")
    ELSE IF ext.stdout = "not_json" THEN Failure("Failed to parse roles output")
    ELSE Success

\* _exec_describe_role
ExecDescribeRole(args, ext) ==
    IF args.name = "" THEN Failure("name is required")
    ELSE IF RunRaises(args, ext) THEN Raised
    ELSE IF ext.kind = "exit_nonzero" THEN Failure("stderr")
    ELSE IF ext.stdout = "not_json" THEN Failure("Failed to parse role output")
    ELSE Success

\* the outcome of subprocess.run(command, shell=True, ...) as _exec_run_shell
\* sees it
ShellOutcome(ext) == IF ext.kind = "raises" THEN "exit_nonzero" ELSE ext.kind

\* _exec_run_shell as a handler of execute_tool: command.strip() raises for a
\* command that is not a string, subprocess.run for an OSError
RunShellTool(args, ext) ==
    IF args.command = <<>> THEN Failure("command is required")
    ELSE IF ~args.typed THEN Raised
    ELSE LET r == ExecRunShell(args.command, allowed_env, denied_env, ShellOutcome(ext))
         IN  IF r.ran /\ ext.kind = "raises" THEN Raised
             ELSE ToolResult(r.success, r.error.kind, "", FALSE, FALSE)

\* the command is handed to subprocess.run by this dispatch
ShellStarts(args, ext) ==
    /\ args.object /\ args.typed /\ args.command # <<>>
    /\ ext.kind # "raises"
    /\ ExecRunShell(args.command, allowed_env, denied_env, ShellOutcome(ext)).ran

ALLOWED_READ_PREFIXES ==
    << <<"/", "i", "n", "b", "o", "x", "/">>,
       <<"/", "o", "u", "t", "b", "o", "x", "/">>,
       <<"/", "w", "o", "r", "k", "s", "p", "a", "c", "e", "/">>,
       <<"/", "m", "e", "m", "o", "r", "y", "/">>,
       <<"/", "p", "r", "i", "o", "r", "/">> >>

ALLOWED_WRITE_PREFIXES ==
    << <<"/", "o", "u", "t", "b", "o", "x", "/">>,
       <<"/", "w", "o", "r", "k", "s", "p", "a", "c", "e", "/">>,
       <<"/", "m", "e", "m", "o", "r", "y", "/">> >>

\* the prefixes compared without their closing slash
AnyPrefixBare(path, prefixes) ==
    \E i \in 1..Len(prefixes) :
        StartsWith(path, SubSeq(prefixes[i], 1, Len(prefixes[i]) - 1))

\* any(path.startswith(p) for p in prefixes)
AnyPrefix(path, prefixes) ==
    \E i \in 1..Len(prefixes) : StartsWith(path, prefixes[i])

\* the segments of a path between its slashes
RECURSIVE SplitPath(_, _, _)
SplitPath(path, segment, done) ==
    IF path = <<>> THEN Append(done, segment)
    ELSE IF Head(path) = "/" THEN SplitPath(Tail(path), <<>>, Append(done, segment))
    ELSE SplitPath(Tail(path), Append(segment, Head(path)), done)

\* the directories walked through, `..` stepping back to the parent
RECURSIVE Walk(_, _)
Walk(segments, stack) ==
    IF segments = <<>> THEN stack
    ELSE LET segment == Head(segments) IN
         IF segment = <<>> \/ segment = <<".">> THEN Walk(Tail(segments), stack)
         ELSE IF segment = <<".", ".">>
         THEN Walk(Tail(segments),
                   IF stack = <<>> THEN <<>> ELSE SubSeq(stack, 1, Len(stack) - 1))
         ELSE Walk(Tail(segments), Append(stack, segment))

RECURSIVE JoinPath(_)
JoinPath(stack) ==
    IF stack = <<>> THEN <<>> ELSE <<"/">> \o Head(stack) \o JoinPath(Tail(stack))

\* the file that open(path) and os.path.isfile(path) reach: the operating
\* system resolves the `.` and `..` segments of an absolute path (there are no
\* symbolic links); a path that ends in a slash or is relative is left as it is
Located(path) ==
    IF path = <<>> \/ Head(path) # "/" \/ path[Len(path)] = "/" THEN path
    ELSE JoinPath(Walk(SplitPath(path, <<>>, <<>>), <<>>))

\* os.path.isfile(path)
IsFile(files, path) == Located(path) \in DOMAIN files

\* _exec_read_file; the content read is not kept
ExecReadFile(args, ext) ==
    IF args.path = <<>> THEN Failure("path is required")
    ELSE IF ~args.typed THEN Raised
    ELSE IF ~AnyPrefix(args.path, ALLOWED_READ_PREFIXES) THEN Failure("Read access denied")
    ELSE IF ~IsFile(fs, args.path) THEN Failure("File not found")
    ELSE IF ext.disk # "written" THEN Failure("Read failed")
    ELSE [Success EXCEPT !.path = args.path]

\* open(path, "w") of a path that names a directory fails
NamesDirectory(path) == path[Len(path)] = "/"

\* _exec_write_file
ExecWriteFile(args, ext) ==
    IF args.path = <<>> THEN Failure("path is required")
    ELSE IF ~args.typed THEN Raised
    ELSE IF ~AnyPrefix(args.path, ALLOWED_WRITE_PREFIXES) THEN Failure("Write access denied")
    ELSE IF NamesDirectory(args.path) \/ ext.disk # "written" THEN Failure("Write failed")
    ELSE [Success EXCEPT !.path = args.path]

\* head.rstrip("/")
RECURSIVE RStripSlashes(_)
RStripSlashes(h) ==
    IF h # <<>> /\ h[Len(h)] = "/" THEN RStripSlashes(SubSeq(h, 1, Len(h) - 1)) ELSE h

\* os.path.dirname(path): up to the last slash, trailing slashes dropped
Dirname(path) ==
    LET slashes == {i \in 1..Len(path) : path[i] = "/"}
        last == IF slashes = {} THEN 0
                ELSE CHOOSE i \in slashes : \A j \in slashes : j <= i
        head == SubSeq(path, 1, last)
    IN  IF \A i \in 1..Len(head) : head[i] = "/" THEN head ELSE RStripSlashes(head)

FsCall(op, path) == [op |-> op, path |-> path]

\* the filesystem calls read_file or write_file makes, in order
FsCalls(name, args, ext) ==
    IF ~args.object \/ ~args.typed \/ args.path = <<>> THEN <<>>
    ELSE IF name = "read_file"
    THEN IF ~AnyPrefix(args.path, ALLOWED_READ_PREFIXES) THEN <<>>
         ELSE <<FsCall("isfile", args.path)>>
              \o (IF IsFile(fs, args.path) THEN <<FsCall("open_r", args.path)>> ELSE <<>>)
    ELSE IF name = "write_file"
    THEN IF ~AnyPrefix(args.path, ALLOWED_WRITE_PREFIXES) THEN <<>>
         ELSE <<FsCall("makedirs", Dirname(args.path)), FsCall("open_w", args.path)>>
    ELSE <<>>

\* files with `path` holding `content`
WithFile(files, path, content) ==
    [q \in DOMAIN files \cup {path} |-> IF q = path THEN content ELSE files[q]]

\* the files after the dispatch: write_file replaces the file, and leaves it
\* empty when the write fails after open() truncated it
FilesAfter(name, args, ext) ==
    IF name = "write_file" /\ args.object /\ args.typed /\ args.path # <<>>
       /\ AnyPrefix(args.path, ALLOWED_WRITE_PREFIXES) /\ ~NamesDirectory(args.path)
    THEN IF ext.disk = "written" THEN WithFile(fs, Located(args.path), args.content)
         ELSE IF ext.disk = "write_failed" THEN WithFile(fs, Located(args.path), <<>>)
         ELSE fs
    ELSE fs

\* main.py STATE_FILE: "/memory/state.json"
StatePath ==
    <<"/", "m", "e", "m", "o", "r", "y", "/",
      "s", "t", "a", "t", "e", ".", "j", "s", "o", "n">>

\* the checkpoint file after the dispatch: write_file to the place of the
\* checkpoint file replaces it; the texts the modelled calls write are no JSON,
\* and a write that fails leaves the file truncated
StateFileAfter(name, args, ext) ==
    IF name = "write_file" /\ args.object /\ args.typed /\ args.path # <<>>
       /\ AnyPrefix(args.path, ALLOWED_WRITE_PREFIXES) /\ ~NamesDirectory(args.path)
       /\ Located(args.path) = StatePath /\ ext.disk \in {"written", "write_failed"}
    THEN GarbageFile
    ELSE state_file

\* the `hortator` verb the handler runs, <<>> when it runs none
ControllerCommands(name, args, ext) ==
    IF ~args.object \/ ~args.typed \/ ext.kind = "raises" THEN <<>>
    ELSE IF name = "spawn_task" /\ args.prompt # <<>> THEN <<"spawn">>
    ELSE IF name = "check_status" /\ args.task_name # "" THEN <<"status">>
    ELSE IF name = "get_result" /\ args.task_name # "" THEN <<"result">>
    ELSE IF name = "cancel_task" /\ args.task_name # "" THEN <<"cancel">>
    ELSE IF name = "list_roles" THEN <<"roles list">>
    ELSE IF name = "describe_role" /\ args.name # "" THEN <<"roles describe">>
    ELSE <<>>

\* the match statement of execute_tool; args.get raises when args is no dict
Handle(name, args, ext) ==
    IF name \notin {"spawn_task", "check_status", "get_result", "cancel_task",
                    "checkpoint_and_wait", "list_roles", "describe_role",
                    "run_shell", "read_file", "write_file"}
    THEN Failure("Unknown tool")
    ELSE IF name = "list_roles" THEN ExecListRoles(args, ext)
    ELSE IF ~args.object THEN Raised
    ELSE IF name = "spawn_task" THEN ExecSpawnTask(args, ext)
    ELSE IF name = "check_status" THEN ExecCheckStatus(args, ext)
    ELSE IF name = "get_result" THEN ExecGetResult(args, ext)
    ELSE IF name = "cancel_task" THEN ExecCancelTask(args, ext)
    ELSE IF name = "checkpoint_and_wait" THEN ExecCheckpointAndWait(args)
    ELSE IF name = "describe_role" THEN ExecDescribeRole(args, ext)
    ELSE IF name = "run_shell" THEN RunShellTool(args, ext)
    ELSE IF name = "read_file" THEN ExecReadFile(args, ext)
    ELSE ExecWriteFile(args, ext)

\* the handler's exception is let through
ExecuteToolUncaught(name, args, ext) == Handle(name, args, ext)

\* a handler's failure is raised instead of returned
ExecuteToolFailFast(name, args, ext) ==
    LET res == Handle(name, args, ext) IN
    IF res.raised \/ ~res.success THEN Raised ELSE res

\* execute_tool: an exception of the handler becomes a failure outcome
ExecuteTool(name, args, ext) ==
    LET res == Handle(name, args, ext) IN
    IF res.raised THEN Failure("exception") ELSE res

(***************************************************************************)
(* The loop: loop.py agentic_loop                                          *)
(***************************************************************************)
MAX_ITERATIONS == 200

TaskName == "task"
SystemPrompt == <<"S">>

\* a system prompt that does not list the tools
BuildSystemPromptFixed(tool_names) == SystemPrompt

\* prompts.py build_system_prompt: the fixed sections followed by one line for
\* each tool handed to the model
BuildSystemPrompt(tool_names) == SystemPrompt \o tool_names

\* the message does not say which call it answers
MsgWithoutId(role, content, tool_calls, tool_call_id) ==
    [role |-> role, content |-> content, tool_calls |-> tool_calls,
     tool_call_id |-> 0]

Msg(role, content, tool_calls, tool_call_id) ==
    [role |-> role, content |-> content, tool_calls |-> tool_calls,
     tool_call_id |-> tool_call_id]

\* max_tokens_budget is None
NoBudget == [set |-> FALSE, n |-> 0]

\* budget.get("maxTokens"), a string converted with int() when it can be
NormalizeBudget(raw) ==
    IF raw.kind = "absent" THEN NoBudget
    ELSE IF raw.kind = "int" THEN [set |-> TRUE, n |-> raw.n]
    ELSE IF raw.parses THEN [set |-> TRUE, n |-> raw.n]
    ELSE NoBudget

\* a budget of 0 is a ceiling as any other
BudgetReachedAtZero(b, tin, tout) == b.set /\ tin + tout >= b.n

\* the comparison written > instead of >=
BudgetReachedStrict(b, tin, tout) == b.set /\ b.n # 0 /\ tin + tout > b.n

\* max_tokens_budget and (total_in + total_out) >= max_tokens_budget
BudgetReached(b, tin, tout) == b.set /\ b.n # 0 /\ tin + tout >= b.n

\* the flag is never seen
is_killed_never == FALSE

\* the flag is consulted in the first iteration only
is_killed_first_only == killed /\ iteration = 0

\* lambda: _killed
is_killed == killed

\* the ceiling is reached one iteration late
LoopExhaustedLate(i) == i > MAX_ITERATIONS

\* range(MAX_ITERATIONS) has no further value
LoopExhausted(i) == i >= MAX_ITERATIONS

\* the for loop breaks when the flag is set
RemainingUnlessKilled(queue) == IF killed THEN <<>> ELSE Tail(queue)

\* the for loop over the tool calls of the turn moves on to the next one
RemainingAfter(queue) == Tail(queue)

\* the output holds a fixed text in place of the one it was given
OutputFixedText(kind, text) == [kind |-> kind, text |-> IF text = <<>> THEN <<>> ELSE <<"length">>]

\* the output leaves the text out
OutputWithoutText(kind, text) == [kind |-> kind, text |-> <<>>]

Output(kind, text) == [kind |-> kind, text |-> text]

NoResult == [status |-> "none", output |-> Output("none", <<>>), tokens_in |-> 0,
             tokens_out |-> 0, artifacts |-> <<>>, pending_children |-> <<>>]

\* the result leaves the token totals out
LoopResultNoTokens(status, output, tin, tout, arts) ==
    [status |-> status, output |-> output, tokens_in |-> 0, tokens_out |-> 0,
     artifacts |-> arts, pending_children |-> <<>>]

LoopResult(status, output, tin, tout, arts) ==
    [status |-> status, output |-> output, tokens_in |-> tin, tokens_out |-> tout,
     artifacts |-> arts, pending_children |-> <<>>]

\* every return saves a checkpoint first
ReturnAfterSaving(status, output, tin, tout, arts) ==
    /\ pc' = "returned"
    /\ result' = LoopResult(status, output, tin, tout, arts)
    /\ state_file' = SaveCheckpoint(state_file,
                          WaitingCheckpoint(TaskName, spawned_children,
                                            pending_children, decisions, messages),
                          "written")
    /\ ckpt_writes' = ckpt_writes + 1

\* return LoopResult(...) with no checkpoint
Return(status, output, tin, tout, arts) ==
    /\ pc' = "returned"
    /\ result' = LoopResult(status, output, tin, tout, arts)
    /\ UNCHANGED <<state_file, ckpt_writes>>

\* the suspension is reported under the phase of its checkpoint
SuspendWaiting(status, output, tin, tout) ==
    /\ \E disk \in DiskOutcomes :
          state_file' = SaveCheckpoint(state_file,
                            WaitingCheckpoint(TaskName, spawned_children,
                                              pending_children, decisions, messages),
                            disk)
    /\ ckpt_writes' = ckpt_writes + 1
    /\ pc' = "returned"
    /\ result' = LoopResult("waiting", output, tin, tout, <<>>)

\* _save_waiting_checkpoint(...) then return LoopResult(...)
Suspend(status, output, tin, tout) ==
    /\ \E disk \in DiskOutcomes :
          state_file' = SaveCheckpoint(state_file,
                            WaitingCheckpoint(TaskName, spawned_children,
                                              pending_children, decisions, messages),
                            disk)
    /\ ckpt_writes' = ckpt_writes + 1
    /\ pc' = "returned"
    /\ result' = LoopResult(status, output, tin, tout, <<>>)

\* the top of an iteration goes on to the model call
WillCall ==
    /\ ~LoopExhausted(iteration)
    /\ ~is_killed
    /\ ~BudgetReached(max_tokens_budget, total_in, total_out)

\* loop.py lines 64-110 and 201-211: the checks before the model call
TopOfIteration ==
    /\ UNCHANGED sseVars
    /\ pc = "top"
    /\ IF LoopExhausted(iteration)
       THEN /\ Suspend("failed", Output("iteration_limit", <<>>), total_in, total_out)
            /\ UNCHANGED calls
       ELSE IF is_killed
       THEN /\ Suspend("failed", Output("killed", <<>>), total_in, total_out)
            /\ UNCHANGED calls
       ELSE IF BudgetReached(max_tokens_budget, total_in, total_out)
       THEN /\ Suspend("budget_exceeded", Output("budget", <<>>), total_in, total_out)
            /\ UNCHANGED calls
       ELSE /\ pc' = "llm"
            /\ calls' = calls + 1
            /\ UNCHANGED <<state_file, ckpt_writes, result>>
    /\ UNCHANGED <<killed, checkpoint, child_results, resume_context, task, result_file,
                   messages, iteration, total_in, total_out, max_tokens_budget,
                   spawned_children, pending_children, decisions, artifacts, tool_queue,
                   tools, life, dispatched, spent, reported, signal_at, shellVars,
                   worldVars>>

\* usage.prompt_tokens or 0, usage.completion_tokens or 0, when usage is there
UsageIn(resp) == IF resp.usage.present THEN resp.usage.prompt_tokens ELSE 0
UsageOut(resp) == IF resp.usage.present THEN resp.usage.completion_tokens ELSE 0

\* the stop reason is not looked at before the tool calls
IsNormalStopIgnored(finish_reason) == FALSE

\* finish_reason == "stop" or finish_reason == "end_turn"
IsNormalStop(finish_reason) == finish_reason = "stop" \/ finish_reason = "end_turn"

\* loop.py lines 102-143 and 181-199: the model call returns (or raises)
LLMReturns(resp) ==
    /\ UNCHANGED sseVars
    /\ pc = "llm"
    /\ IF resp.fails
       THEN /\ Return("failed", Output("llm_failed", <<>>), total_in, total_out, <<>>)
            /\ UNCHANGED <<messages, iteration, total_in, total_out, tool_queue, spent,
                           reported>>
       ELSE LET tin == total_in + UsageIn(resp)
                tout == total_out + UsageOut(resp)
            IN
            /\ total_in' = tin
            /\ total_out' = tout
            /\ spent' = spent + UsageIn(resp) + UsageOut(resp)
            /\ reported' = [input |-> reported.input + UsageIn(resp),
                             output |-> reported.output + UsageOut(resp)]
            /\ messages' = Append(messages,
                                  Msg("assistant", resp.content, resp.tool_calls, 0))
            /\ IF IsNormalStop(resp.finish_reason)
               THEN /\ Return("completed", Output("content", resp.content),
                              tin, tout, artifacts)
                    /\ UNCHANGED <<iteration, tool_queue>>
               ELSE IF resp.finish_reason = "tool_calls" \/ resp.tool_calls # <<>>
               THEN /\ tool_queue' = resp.tool_calls
                    /\ IF resp.tool_calls = <<>>
                       THEN pc' = "top" /\ iteration' = iteration + 1
                       ELSE pc' = "tools" /\ UNCHANGED iteration
                    /\ UNCHANGED <<state_file, ckpt_writes, result>>
               ELSE IF resp.content # <<>>
               THEN /\ Return("completed", Output("content", resp.content),
                              tin, tout, artifacts)
                    /\ UNCHANGED <<iteration, tool_queue>>
               ELSE /\ Return("failed", Output("unexpected_stop", <<resp.finish_reason>>),
                              tin, tout, <<>>)
                    /\ UNCHANGED <<iteration, tool_queue>>
    /\ UNCHANGED <<killed, checkpoint, child_results, resume_context, task, result_file,
                   max_tokens_budget, spawned_children, pending_children, decisions,
                   artifacts, tools, life, calls, dispatched, signal_at, shellVars,
                   worldVars>>

\* path.removeprefix(prefix)
RemovePrefix(path, prefix) ==
    IF StartsWith(path, prefix) THEN SubSeq(path, Len(prefix) + 1, Len(path)) ELSE path

\* "/outbox/artifacts/"
ArtifactsPrefix ==
    <<"/", "o", "u", "t", "b", "o", "x", "/",
      "a", "r", "t", "i", "f", "a", "c", "t", "s", "/">>

\* loop.py lines 147-179: one pass of the for loop over the turn's tool calls;
\* an exception leaving execute_tool would leave agentic_loop and main
DispatchTool(ext) ==
    /\ UNCHANGED sseVars
    /\ pc = "tools"
    /\ tool_queue # <<>>
    /\ LET tool_call == Head(tool_queue)
           res == ExecuteTool(tool_call.name, tool_call.args, ext)
           tracked == tool_call.name = "spawn_task" /\ res.success
                      /\ res.task_name # ""
           written == tool_call.name = "write_file" /\ res.success
                      /\ StartsWith(res.path, ArtifactsPrefix)
       IN
       /\ subprocesses' = IF tool_call.name = "run_shell" /\ ShellStarts(tool_call.args, ext)
                          THEN Append(subprocesses, tool_call.args.command)
                          ELSE subprocesses
       /\ controller_cmds' = controller_cmds
                             \o ControllerCommands(tool_call.name, tool_call.args, ext)
       /\ fs_ops' = fs_ops \o FsCalls(tool_call.name, tool_call.args, ext)
       /\ fs' = FilesAfter(tool_call.name, tool_call.args, ext)
       /\ state_file' = StateFileAfter(tool_call.name, tool_call.args, ext)
       /\ dispatched' = dispatched + 1
       /\ IF res.raised
          THEN /\ pc' = "crashed"
               /\ UNCHANGED <<spawned_children, pending_children, artifacts, messages,
                              tool_queue, iteration>>
          ELSE /\ spawned_children' = IF tracked
                                      THEN Append(spawned_children, res.task_name)
                                      ELSE spawned_children
               /\ pending_children' = IF tracked /\ res.async
                                      THEN Append(pending_children, res.task_name)
                                      ELSE pending_children
               /\ artifacts' = IF written
                               THEN Append(artifacts,
                                           RemovePrefix(res.path, ArtifactsPrefix))
                               ELSE artifacts
               /\ messages' = Append(messages, Msg("tool", <<res>>, <<>>, tool_call.id))
               /\ tool_queue' = RemainingAfter(tool_queue)
               /\ IF tool_queue' = <<>>
                  THEN pc' = "top" /\ iteration' = iteration + 1
                  ELSE pc' = "tools" /\ UNCHANGED iteration
    /\ UNCHANGED <<killed, checkpoint, child_results, resume_context, task,
                   result_file, total_in, total_out, max_tokens_budget, decisions,
                   result, tools, life, calls, ckpt_writes, spent, reported, signal_at,
                   command, allowed_env, denied_env, shell_result,
                   usage_file, crd_report, state, external>>

(***************************************************************************)
(* The process: main.py                                                    *)
(***************************************************************************)
\* _on_signal
OnSignal ==
    /\ UNCHANGED sseVars
    /\ pc \in {"init", "top", "llm", "tools", "returned"}
    /\ killed' = TRUE
    /\ signal_at' = IF killed THEN signal_at ELSE pc
    /\ UNCHANGED <<pc, checkpoint, child_results, resume_context, state_file, task,
                   result_file, loopVars, life, calls, dispatched, ckpt_writes, spent,
                   reported,
                   shellVars, worldVars>>

NoResultFile == [written |-> FALSE, status |-> "", summary |-> Output("none", <<>>),
                 artifacts |-> <<>>, decisions |-> 0, input |-> 0, output |-> 0]

\* the two token counts change places
ResultRecordSwapped(status, summary, tin, tout, arts) ==
    [written |-> TRUE, status |-> status, summary |-> summary, artifacts |-> arts,
     decisions |-> 0, input |-> tout, output |-> tin]

\* the record die and write_result put in result.json
ResultRecord(status, summary, tin, tout, arts) ==
    [written |-> TRUE, status |-> status, summary |-> summary, artifacts |-> arts,
     decisions |-> 0, input |-> tin, output |-> tout]

NoUsageFile == [written |-> FALSE, input |-> 0, output |-> 0, total |-> 0]

\* the record die and write_result put in usage.json
UsageRecord(tin, tout) ==
    [written |-> TRUE, input |-> tin, output |-> tout, total |-> tin + tout]

NoReport == [called |-> FALSE, summary |-> Output("none", <<>>),
             tokens_in |-> 0, tokens_out |-> 0]

\* the arguments of `hortator report`
Report(summary, tin, tout) ==
    [called |-> TRUE, summary |-> summary, tokens_in |-> tin, tokens_out |-> tout]

\* what the disk does with the two files of the outbox: both written, or an
\* OSError at result.json, or result.json written and an OSError at usage.json
OutboxOutcomes == {"written", "result_failed", "usage_failed"}

\* usage.json is left unwritten
WriteOutboxResultOnly(status, summary, tin, tout, arts, disk) ==
    /\ result_file' = IF disk = "result_failed" THEN result_file
                      ELSE ResultRecord(status, summary, tin, tout, arts)
    /\ usage_file' = usage_file

\* the two open/json.dump pairs of die and write_result; neither function
\* catches the OSError
WriteOutbox(status, summary, tin, tout, arts, disk) ==
    /\ result_file' = IF disk = "result_failed" THEN result_file
                      ELSE ResultRecord(status, summary, tin, tout, arts)
    /\ usage_file' = IF disk = "written" THEN UsageRecord(tin, tout) ELSE usage_file

\* no model call has reported tokens in this lifetime
NoneReported == [input |-> 0, output |-> 0]

\* main() up to the call of agentic_loop, and agentic_loop lines 50-62
MainStart(disk) ==
    /\ UNCHANGED sseVars
    /\ pc = "init"
    /\ IF task.kind = "malformed"
       THEN \* json.load(f) or task.get raises
            /\ pc' = "crashed"
            /\ UNCHANGED <<checkpoint, resume_context, loopVars, calls, dispatched,
                           ckpt_writes, result_file, usage_file>>
       ELSE IF task.kind = "missing" \/ task.prompt = <<>>
       THEN \* die(...)
            /\ WriteOutbox("failed", Output("die", <<>>), 0, 0, <<>>, disk)
            /\ pc' = IF disk = "written" THEN "died" ELSE "crashed"
            /\ UNCHANGED <<checkpoint, resume_context, loopVars, calls, dispatched,
                           ckpt_writes>>
       ELSE LET loaded == LoadCheckpoint(state_file)
                resume == IF loaded.loaded
                          THEN BuildResumeContext(loaded.data, child_results)
                          ELSE <<>>
            IN
            IF loaded.raised
            THEN /\ pc' = "crashed"
                 /\ UNCHANGED <<checkpoint, resume_context, loopVars, calls, dispatched,
                                ckpt_writes, result_file, usage_file>>
            ELSE
            /\ checkpoint' = loaded
            /\ tools' = BuildTools(task.capabilities)
            /\ resume_context' = resume
            /\ messages' = <<Msg("system", BuildSystemPrompt(tools'), <<>>, 0),
                             Msg("user", IF loaded.loaded THEN resume ELSE task.prompt,
                                 <<>>, 0)>>
            /\ total_in' = 0
            /\ total_out' = 0
            /\ spawned_children' = <<>>
            /\ pending_children' = <<>>
            /\ decisions' = <<>>
            /\ artifacts' = <<>>
            /\ max_tokens_budget' = NormalizeBudget(task.budget)
            /\ iteration' = 0
            /\ tool_queue' = <<>>
            /\ result' = NoResult
            /\ calls' = 0
            /\ dispatched' = 0
            /\ ckpt_writes' = 0
            /\ pc' = "top"
            /\ UNCHANGED <<result_file, usage_file>>
    /\ reported' = NoneReported
    /\ UNCHANGED <<killed, child_results, state_file, task, life, spent, signal_at,
                   shellVars, crd_report, fs, fs_ops, controller_cmds, state, external>>

\* report_to_crd runs only when write_result returned
Reported(disk) == disk = "written"

\* main() after agentic_loop returned: write_result, report_to_crd, exit
MainFinish(disk) ==
    /\ UNCHANGED sseVars
    /\ pc = "returned"
    /\ WriteOutbox(result.status, result.output, result.tokens_in, result.tokens_out,
                   result.artifacts, disk)
    /\ crd_report' = IF Reported(disk)
                     THEN Report(result.output, result.tokens_in, result.tokens_out)
                     ELSE crd_report
    /\ pc' = IF disk # "written" THEN "crashed"
             ELSE IF result.status = "waiting" THEN "exited_waiting"
             ELSE "exited"
    /\ UNCHANGED <<killed, checkpoint, child_results, resume_context, state_file, task,
                   loopVars, histVars, shellVars, fs, fs_ops, controller_cmds, state,
                   external>>

\* the supervisor starts the process again, after delivering child results
Restart(inbox) ==
    /\ UNCHANGED sseVars
    /\ pc = "exited"
    /\ life < MaxLives
    /\ life' = life + 1
    /\ killed' = FALSE
    /\ signal_at' = "none"
    /\ child_results' = inbox
    /\ pc' = "init"
    /\ UNCHANGED <<checkpoint, resume_context, state_file, task, result_file, loopVars,
                   calls, dispatched, ckpt_writes, spent, reported, shellVars, worldVars>>

(***************************************************************************)
(* One run_shell dispatch and one call of _build_resume_context            *)
(***************************************************************************)
\* execute_tool("run_shell", {"command": command}) under the environment
RunShellDispatch(outcome) ==
    /\ UNCHANGED sseVars
    /\ pc = "shell"
    /\ shell_result' = ExecRunShell(command, allowed_env, denied_env, outcome)
    /\ subprocesses' = IF shell_result'.ran THEN Append(subprocesses, command)
                       ELSE subprocesses
    /\ pc' = "shell_done"
    /\ UNCHANGED <<killed, checkpoint, child_results, resume_context, state_file, task,
                   result_file, loopVars, histVars, command, allowed_env, denied_env,
                   worldVars>>

\* resume_context = _build_resume_context(checkpoint, child_results)
ResumeBuild ==
    /\ UNCHANGED sseVars
    /\ pc = "resume"
    /\ resume_context' = BuildResumeContext(checkpoint.data, child_results)
    /\ pc' = "resume_done"
    /\ UNCHANGED <<killed, checkpoint, child_results, state_file, task, result_file,
                   loopVars, histVars, shellVars, worldVars>>

(***************************************************************************)
(* The checkpoint store called directly: save_checkpoint, load_checkpoint  *)
(***************************************************************************)
\* save_checkpoint(STATE_FILE, state)
StoreSave(disk) ==
    /\ UNCHANGED sseVars
    /\ pc = "store"
    /\ state_file' = SaveCheckpoint(state_file, state, disk)
    /\ pc' = IF disk = "written" THEN "saved" ELSE "save_failed"
    /\ UNCHANGED <<killed, checkpoint, child_results, resume_context, task, result_file,
                   loopVars, histVars, shellVars, worldVars>>

\* checkpoint = load_checkpoint(STATE_FILE), of the file as found or as saved
StoreLoad ==
    /\ UNCHANGED sseVars
    /\ pc \in {"store", "saved", "save_failed"}
    /\ checkpoint' = LoadCheckpoint(state_file)
    /\ pc' = IF pc = "saved" THEN "reloaded" ELSE "loaded"
    /\ UNCHANGED <<killed, child_results, resume_context, state_file, task, result_file,
                   loopVars, histVars, shellVars, worldVars>>

(***************************************************************************)
(* Inputs of the exploration                                               *)
(***************************************************************************)
AbsentBudget == [kind |-> "absent", n |-> 0, parses |-> FALSE]
IntBudget(n) == [kind |-> "int", n |-> n, parses |-> TRUE]
StrBudget(n) == [kind |-> "str", n |-> n, parses |-> TRUE]
BadStrBudget == [kind |-> "str", n |-> 0, parses |-> FALSE]

\* the capabilities of a task that has them all
AllCapabilities == {"spawn", "shell"}

TaskWith(budget) ==
    [kind |-> "object", prompt |-> <<"p">>, budget |-> budget,
     capabilities |-> AllCapabilities]

\* task.json is not there
MissingTask == [TaskWith(AbsentBudget) EXCEPT !.kind = "missing", !.prompt = <<>>]

\* task.json is not JSON, or is JSON that is not an object
MalformedTask == [TaskWith(AbsentBudget) EXCEPT !.kind = "malformed", !.prompt = <<>>]

\* task.json has no prompt, or an empty one
EmptyPromptTask == [TaskWith(AbsentBudget) EXCEPT !.prompt = <<>>]

NoUsage == [present |-> FALSE, prompt_tokens |-> 0, completion_tokens |-> 0]
Usages ==
    {NoUsage} \cup [present : {TRUE}, prompt_tokens : 0..1, completion_tokens : 0..1]

Texts == {<<>>, <<"t">>}

SpawnCall(id, wait) ==
    [id |-> id, name |-> "spawn_task",
     args |-> [NoArgs EXCEPT !.prompt = <<"q">>, !.wait = wait]]
WaitCall(id) ==
    [id |-> id, name |-> "checkpoint_and_wait", args |-> NoArgs]

FailedCall == [fails |-> TRUE, usage |-> NoUsage, finish_reason |-> "",
               content |-> <<>>, tool_calls |-> <<>>]

\* the answers of the model: a failed call, or a turn with these shapes
Responses(reasons, texts, turns) ==
    {FailedCall} \cup [fails : {FALSE}, usage : Usages, finish_reason : reasons,
                       content : texts, tool_calls : turns]

\* the turn does not end the loop
Continues(resp) ==
    /\ ~resp.fails
    /\ resp.finish_reason \notin {"stop", "end_turn"}
    /\ resp.finish_reason = "tool_calls" \/ resp.tool_calls # <<>>

WithinTokens(resp) == total_in + total_out + UsageIn(resp) + UsageOut(resp) <= MaxTokens

ShellIdle ==
    /\ command = <<>>
    /\ allowed_env = <<>>
    /\ denied_env = <<>>
    /\ shell_result = NoShellResult
    /\ subprocesses = <<>>

\* no file but task.json and state.json, nothing reported, no command run
NoFiles == <<>>

OutsideIdle ==
    /\ usage_file = NoUsageFile
    /\ crd_report = NoReport
    /\ fs = NoFiles
    /\ fs_ops = <<>>
    /\ controller_cmds = <<>>
    /\ external = SpawnExitNonzero

WorldIdle == OutsideIdle /\ state = NoData

\* agentic_loop has not been entered
LoopIdle ==
    /\ messages = <<>>
    /\ iteration = 0
    /\ total_in = 0
    /\ total_out = 0
    /\ max_tokens_budget = NoBudget
    /\ spawned_children = <<>>
    /\ pending_children = <<>>
    /\ decisions = <<>>
    /\ artifacts = <<>>
    /\ tool_queue = <<>>
    /\ result = NoResult
    /\ tools = <<>>
    /\ life = 1
    /\ calls = 0
    /\ dispatched = 0
    /\ ckpt_writes = 0
    /\ spent = 0
    /\ reported = NoneReported
    /\ signal_at = "none"

\* main() has not started
MainIdle ==
    /\ killed = FALSE
    /\ checkpoint = NoCheckpoint
    /\ child_results = <<>>
    /\ resume_context = <<>>
    /\ result_file = NoResultFile

ProcessIdle ==
    /\ MainIdle
    /\ state_file = MissingFile
    /\ LoopIdle
    /\ WorldIdle

(***************************************************************************)
(* Spec: one lifetime of the process, the first MaxCalls model calls       *)
(***************************************************************************)
LoopBudgets == {AbsentBudget, IntBudget(0), IntBudget(1)}
LoopTurns == {<<>>, <<SpawnCall(1, FALSE), WaitCall(2)>>}
LoopResponses == Responses({"stop", "end_turn", "tool_calls", "length"}, Texts, LoopTurns)
LoopExts == {SpawnExitNonzero, SpawnExitZero("a")}

Init ==
    /\ SseIdle
    /\ pc = "init"
    /\ task \in {TaskWith(b) : b \in LoopBudgets}
                \cup {MissingTask, MalformedTask, EmptyPromptTask}
    /\ ProcessIdle
    /\ ShellIdle

Next ==
    \/ MainStart("written")
    \/ (WillCall => calls < MaxCalls) /\ TopOfIteration
    \/ \E resp \in LoopResponses : WithinTokens(resp) /\ LLMReturns(resp)
    \/ \E ext \in LoopExts : DispatchTool(ext)
    \/ OnSignal
    \/ MainFinish("written")

Spec == Init /\ [][Next]_vars

(***************************************************************************)
(* SpecCeiling: one lifetime run to the iteration ceiling; every turn that *)
(* continues the loop has the same shape                                   *)
(***************************************************************************)
CeilingResponses ==
    {resp \in Responses({"stop", "tool_calls", "length"}, Texts,
                        {<<>>, <<WaitCall(1)>>}) :
        /\ resp.usage.present => resp.usage.prompt_tokens = resp.usage.completion_tokens
        /\ Continues(resp) => resp.content = <<>> /\ resp.tool_calls = <<WaitCall(1)>>}

NextCeiling ==
    \/ MainStart("written")
    \/ TopOfIteration
    \/ \E resp \in CeilingResponses : WithinTokens(resp) /\ LLMReturns(resp)
    \/ DispatchTool(SpawnExitNonzero)
    \/ OnSignal
    \/ MainFinish("written")

SpecCeiling == Init /\ [][NextCeiling]_vars

(***************************************************************************)
(* SpecLife: the lifetimes of one task: suspension, restart, resume        *)
(***************************************************************************)
ChildResult(status, summary, output) ==
    [status |-> status, summary |-> summary, output |-> output]
InboxEntry(name, res) == [name |-> name, result |-> res]

LifeBudgets == {AbsentBudget, IntBudget(1)}
LifeTurns == {<<SpawnCall(1, TRUE)>>, <<SpawnCall(1, FALSE)>>}
LifeResponses ==
    {resp \in Responses({"stop", "tool_calls"}, {<<"t">>}, LifeTurns) :
        resp.usage.present /\ resp.usage.prompt_tokens = resp.usage.completion_tokens}
LifeExts == {SpawnExitZero("a"), SpawnExitZero("b")}
LifeInboxes == {<<>>, <<InboxEntry("a", ChildResult("completed", "s", Absent))>>}

InitLife ==
    /\ SseIdle
    /\ pc = "init"
    /\ task \in {TaskWith(b) : b \in LifeBudgets}
    /\ ProcessIdle
    /\ ShellIdle

NextLife ==
    \/ MainStart("written")
    \/ (WillCall => calls < MaxCalls) /\ TopOfIteration
    \/ \E resp \in LifeResponses : WithinTokens(resp) /\ LLMReturns(resp)
    \/ \E ext \in LifeExts : DispatchTool(ext)
    \/ OnSignal
    \/ MainFinish("written")
    \/ \E inbox \in LifeInboxes : Restart(inbox)

SpecLife == InitLife /\ [][NextLife]_vars

(***************************************************************************)
(* SpecShell: run_shell dispatched once, for every command text of up to   *)
(* MaxCmdLen characters under each setting of the two lists                *)
(***************************************************************************)
CmdAlphabet == {"c", "u", " ", "|"}

TextsUpTo(alphabet, n) == UNION {[1..k -> alphabet] : k \in 0..n}

\* "", "c", "u", "c,g", "c, u"
EnvSettings == {<<>>, <<"c">>, <<"u">>, <<"c", ",", "g">>, <<"c", ",", " ", "u">>}

InitShell ==
    /\ SseIdle
    /\ pc = "shell"
    /\ task = TaskWith(AbsentBudget)
    /\ ProcessIdle
    /\ command \in TextsUpTo(CmdAlphabet, MaxCmdLen)
    /\ allowed_env \in EnvSettings
    /\ denied_env \in EnvSettings
    /\ shell_result = NoShellResult
    /\ subprocesses = <<>>

NextShell == \E outcome \in ProcessOutcomes : RunShellDispatch(outcome)

SpecShell == InitShell /\ [][NextShell]_vars

(***************************************************************************)
(* SpecResume: _build_resume_context called once, for each checkpoint and  *)
(* each inbox of the sets below                                            *)
(***************************************************************************)
NameLists == {<<>>, <<"a">>, <<"b">>, <<"a", "b">>, <<"b", "a">>}

Names(list) == {list[i] : i \in 1..Len(list)}

ChildRefs(list, status) == [i \in 1..Len(list) |-> [name |-> list[i], status |-> status]]

ResumeCheckpoints ==
    {[loaded |-> TRUE, raised |-> FALSE,
      data |-> [version |-> 1, taskId |-> TaskName, phase |-> "waiting",
                completedChildren |-> ChildRefs(done, "Completed"),
                pendingChildren |-> ChildRefs(running, "Running"),
                decisions |-> decs, accumulatedContext |-> ctx, plan |-> <<>>]] :
        done \in NameLists, running \in NameLists,
        decs \in {<<>>, <<"d">>}, ctx \in Texts}

ChildResults ==
    {ChildResult("completed", "s", Absent), ChildResult(Absent, Absent, "o"),
     ChildResult(Absent, Absent, Absent)}

ResumeInboxes ==
    {[i \in 1..Len(list) |-> InboxEntry(list[i], res)] :
        list \in NameLists, res \in ChildResults}

InitResume ==
    /\ SseIdle
    /\ pc = "resume"
    /\ task = TaskWith(AbsentBudget)
    /\ killed = FALSE
    /\ checkpoint \in {c \in ResumeCheckpoints :
                          Names([i \in 1..Len(c.data.completedChildren) |->
                                     c.data.completedChildren[i].name])
                          \cap Names([i \in 1..Len(c.data.pendingChildren) |->
                                          c.data.pendingChildren[i].name]) = {}}
    /\ child_results \in ResumeInboxes
    /\ resume_context = <<>>
    /\ state_file = MissingFile
    /\ result_file = NoResultFile
    /\ LoopIdle
    /\ WorldIdle
    /\ ShellIdle

NextResume == ResumeBuild

SpecResume == InitResume /\ [][NextResume]_vars

(***************************************************************************)
(* SpecStore: the checkpoint store on each content of state.json, and each *)
(* value saved and loaded again                                            *)
(***************************************************************************)
Versions == {NoVersion, 0, 1, 2}

\* checkpoint values: every version, with and without children and context
StoreValues ==
    {[version |-> v, taskId |-> TaskName, phase |-> "waiting",
      completedChildren |-> ChildRefs(done, "Completed"),
      pendingChildren |-> <<>>,
      decisions |-> decs, accumulatedContext |-> ctx, plan |-> <<>>] :
        v \in Versions, done \in {<<>>, <<"a">>}, decs \in {<<>>, <<"d">>},
        ctx \in Texts}

StoreFiles ==
    {MissingFile, GarbageFile, JsonOtherFile, UndecodableFile}
    \cup {JsonObjectFile(data) : data \in {d \in StoreValues : d.decisions = <<>>}}

InitStore ==
    /\ SseIdle
    /\ pc = "store"
    /\ task = TaskWith(AbsentBudget)
    /\ MainIdle
    /\ state_file \in StoreFiles
    /\ LoopIdle
    /\ OutsideIdle
    /\ state \in StoreValues
    /\ ShellIdle

NextStore ==
    \/ \E disk \in DiskOutcomes : StoreSave(disk)
    \/ StoreLoad

SpecStore == InitStore /\ [][NextStore]_vars

(***************************************************************************)
(* SpecTool: one tool call dispatched by the loop, for each tool name,     *)
(* each shape of arguments and each answer of the world                    *)
(***************************************************************************)
ToolNames ==
    {"spawn_task", "check_status", "get_result", "cancel_task", "checkpoint_and_wait",
     "list_roles", "describe_role", "run_shell", "read_file", "write_file", "nope"}

\* "/etc/"
EtcPrefix == <<"/", "e", "t", "c", "/">>

\* how a path begins: with a read or write prefix, with the artifacts
\* directory, outside every prefix, with a prefix short of its slash, with a
\* prefix short of its root, with a prefix behind another directory
PathHeads ==
    {ALLOWED_READ_PREFIXES[i] : i \in 1..Len(ALLOWED_READ_PREFIXES)}
    \cup {ArtifactsPrefix, EtcPrefix}
    \cup {SubSeq(ALLOWED_WRITE_PREFIXES[i], 1, Len(ALLOWED_WRITE_PREFIXES[i]) - 1) :
              i \in 1..Len(ALLOWED_WRITE_PREFIXES)}
    \cup {Tail(ALLOWED_WRITE_PREFIXES[1]), EtcPrefix \o Tail(ALLOWED_WRITE_PREFIXES[1])}

\* nothing, a file name, a file name in the parent directory
PathTails == {<<>>, <<"a">>, <<".", ".", "/", "a">>}

ToolPaths == {head \o tail : head \in PathHeads, tail \in PathTails} \cup {StatePath}

\* {} and a JSON value that is no object
EmptyArgs == NoArgs
NonObjectArgs == [NoArgs EXCEPT !.object = FALSE]

\* every key given, as strings or as numbers
FullArgs(typed, path, wait) ==
    [NoArgs EXCEPT !.typed = typed, !.prompt = <<"q">>, !.wait = wait,
                   !.task_name = "a", !.name = "r", !.command = <<"c">>,
                   !.path = path, !.content = <<"t">>]

ToolArgs ==
    {EmptyArgs, NonObjectArgs}
    \cup {FullArgs(typed, path, FALSE) : typed \in BOOLEAN, path \in ToolPaths}
    \cup {FullArgs(TRUE, EtcPrefix, TRUE)}

ToolCall(id, name, args) == [id |-> id, name |-> name, args |-> args]

ToolExts ==
    {External(kind, stdout, "a", disk) :
        kind \in {"exit_zero", "exit_nonzero", "timeout", "raises"},
        stdout \in {"object", "not_json", "json_other"},
        disk \in DiskOutcomes}

\* the files there before the call
SomeFiles ==
    [q \in {Located(path) : path \in {p \in ToolPaths : Len(p) > 0 /\ p[Len(p)] = "a"}}
        |-> <<"x">>]

InitTool ==
    /\ SseIdle
    /\ pc = "tools"
    /\ task = TaskWith(AbsentBudget)
    /\ MainIdle
    /\ state_file = MissingFile
    /\ messages = <<>>
    /\ iteration = 0
    /\ total_in = 0
    /\ total_out = 0
    /\ max_tokens_budget = NoBudget
    /\ spawned_children = <<>>
    /\ pending_children = <<>>
    /\ decisions = <<>>
    /\ artifacts = <<>>
    /\ tool_queue \in {<<ToolCall(1, name, args)>> : name \in ToolNames, args \in ToolArgs}
    /\ result = NoResult
    /\ tools = BuildTools(task.capabilities)
    /\ life = 1
    /\ calls = 1
    /\ dispatched = 0
    /\ ckpt_writes = 0
    /\ spent = 0
    /\ reported = NoneReported
    /\ signal_at = "none"
    /\ usage_file = NoUsageFile
    /\ crd_report = NoReport
    /\ fs \in {NoFiles, SomeFiles}
    /\ fs_ops = <<>>
    /\ controller_cmds = <<>>
    /\ state = NoData
    /\ external \in ToolExts
    /\ ShellIdle

NextTool == DispatchTool(external)

SpecTool == InitTool /\ [][NextTool]_vars

(***************************************************************************)
(* SpecAgent: one lifetime under each capability set, the model asking for *)
(* tools of every family                                                   *)
(***************************************************************************)
AgentTasks ==
    {[TaskWith(AbsentBudget) EXCEPT !.capabilities = caps] : caps \in SUBSET AllCapabilities}

AgentTurns ==
    {<<ToolCall(1, "run_shell", [NoArgs EXCEPT !.command = <<"c">>])>>,
     <<ToolCall(1, "spawn_task", [NoArgs EXCEPT !.prompt = <<"q">>]),
       ToolCall(2, "cancel_task", [NoArgs EXCEPT !.task_name = "a"])>>,
     <<ToolCall(1, "check_status", [NoArgs EXCEPT !.task_name = "a"]),
       ToolCall(2, "get_result", [NoArgs EXCEPT !.task_name = "a"])>>,
     <<ToolCall(1, "write_file",
                [NoArgs EXCEPT !.path = ArtifactsPrefix \o <<"a">>, !.content = <<"t">>])>>,
     <<ToolCall(1, "write_file",
                [NoArgs EXCEPT !.path = ALLOWED_WRITE_PREFIXES[2] \o <<"a">>,
                               !.content = <<"t">>])>>}

AgentResponses ==
    {resp \in Responses({"stop", "tool_calls", "length"}, Texts, {<<>>} \cup AgentTurns) :
        ~resp.fails => resp.usage = NoUsage}

AgentExts ==
    {External(kind, "object", "a", disk) :
        kind \in {"exit_zero", "exit_nonzero"}, disk \in {"written", "open_failed"}}

InitAgent ==
    /\ SseIdle
    /\ pc = "init"
    /\ task \in AgentTasks
    /\ ProcessIdle
    /\ ShellIdle

NextAgent ==
    \/ MainStart("written")
    \/ (WillCall => calls < MaxCalls) /\ TopOfIteration
    \/ \E resp \in AgentResponses : LLMReturns(resp)
    \/ \E ext \in AgentExts : DispatchTool(ext)
    \/ OnSignal
    \/ MainFinish("written")

SpecAgent == InitAgent /\ [][NextAgent]_vars

(***************************************************************************)
(* SpecPersist: one lifetime on a disk whose writes can fail               *)
(***************************************************************************)
NextPersist ==
    \/ \E disk \in OutboxOutcomes : MainStart(disk)
    \/ (WillCall => calls < MaxCalls) /\ TopOfIteration
    \/ \E resp \in LoopResponses : WithinTokens(resp) /\ LLMReturns(resp)
    \/ \E ext \in LoopExts : DispatchTool(ext)
    \/ OnSignal
    \/ \E disk \in OutboxOutcomes : MainFinish(disk)

SpecPersist == Init /\ [][NextPersist]_vars

(***************************************************************************)
(* SpecTurn: one lifetime whose turns request one to three tools, some of  *)
(* them refused by the shell filter, by the path prefixes or as unknown    *)
(***************************************************************************)
TurnCalls(id) ==
    {ToolCall(id, "run_shell", [NoArgs EXCEPT !.command = <<"c">>]),
     ToolCall(id, "read_file", [NoArgs EXCEPT !.path = EtcPrefix \o <<"a">>]),
     ToolCall(id, "nope", NoArgs),
     ToolCall(id, "write_file",
              [NoArgs EXCEPT !.path = ALLOWED_WRITE_PREFIXES[2] \o <<"a">>,
                             !.content = <<"t">>])}

LastCalls(id) ==
    {ToolCall(id, "write_file",
              [NoArgs EXCEPT !.path = EtcPrefix \o <<"a">>, !.content = <<"t">>]),
     ToolCall(id, "read_file",
              [NoArgs EXCEPT !.path = ALLOWED_WRITE_PREFIXES[2] \o <<"a">>])}

TurnTurns ==
    {<<c>> : c \in TurnCalls(1)}
    \cup {<<c, d>> : c \in TurnCalls(1), d \in LastCalls(2)}
    \cup {<<ToolCall(1, "nope", NoArgs),
            ToolCall(2, "run_shell", [NoArgs EXCEPT !.command = <<"c">>]),
            ToolCall(3, "spawn_task", [NoArgs EXCEPT !.prompt = <<"q">>])>>}

TurnResponses ==
    {FailedCall} \cup [fails : {FALSE}, usage : {NoUsage},
                       finish_reason : {"stop", "tool_calls"}, content : {<<"t">>},
                       tool_calls : {<<>>} \cup TurnTurns]

TurnExts ==
    {External("exit_zero", "object", "a", "written"),
     External("exit_nonzero", "object", "a", "open_failed")}

\* HORTATOR_ALLOWED_COMMANDS and HORTATOR_DENIED_COMMANDS
TurnEnvs == {<< <<>>, <<>> >>, << <<"l">>, <<>> >>, << <<>>, <<"c">> >>}

InitTurn ==
    /\ SseIdle
    /\ pc = "init"
    /\ task = TaskWith(AbsentBudget)
    /\ MainIdle
    /\ state_file = MissingFile
    /\ LoopIdle
    /\ usage_file = NoUsageFile
    /\ crd_report = NoReport
    /\ fs = NoFiles
    /\ fs_ops = <<>>
    /\ controller_cmds = <<>>
    /\ state = NoData
    /\ external \in TurnExts
    /\ command = <<>>
    /\ \E env \in TurnEnvs : allowed_env = env[1] /\ denied_env = env[2]
    /\ shell_result = NoShellResult
    /\ subprocesses = <<>>

NextTurn ==
    \/ MainStart("written")
    \/ (WillCall => calls < MaxCalls) /\ TopOfIteration
    \/ \E resp \in TurnResponses : LLMReturns(resp)
    \/ DispatchTool(external)
    \/ OnSignal
    \/ MainFinish("written")

SpecTurn == InitTurn /\ [][NextTurn]_vars

(***************************************************************************)
(* SpecSpawn: one lifetime whose turns spawn children, waiting for them or *)
(* not, the controller naming them a or b                                  *)
(***************************************************************************)
SpawnTurns ==
    {<<SpawnCall(1, TRUE)>>, <<SpawnCall(1, FALSE)>>,
     <<SpawnCall(1, TRUE), SpawnCall(2, FALSE)>>,
     <<SpawnCall(1, FALSE), SpawnCall(2, TRUE)>>}

SpawnResponses ==
    {FailedCall} \cup [fails : {FALSE}, usage : {NoUsage},
                       finish_reason : {"stop", "tool_calls"}, content : {<<"t">>},
                       tool_calls : {<<>>} \cup SpawnTurns]

\* the controller refuses, names the child a or b, or answers with an object
\* that names no child
SpawnExts == {SpawnExitNonzero, SpawnExitZero("a"), SpawnExitZero("b"), SpawnExitZero("")}

InitSpawn ==
    /\ SseIdle
    /\ pc = "init"
    /\ task = TaskWith(AbsentBudget)
    /\ ProcessIdle
    /\ ShellIdle

NextSpawn ==
    \/ MainStart("written")
    \/ (WillCall => calls < MaxCalls) /\ TopOfIteration
    \/ \E resp \in SpawnResponses : LLMReturns(resp)
    \/ \E ext \in SpawnExts : DispatchTool(ext)
    \/ OnSignal
    \/ MainFinish("written")

SpecSpawn == InitSpawn /\ [][NextSpawn]_vars

(***************************************************************************)
(* SpecContext: the loop at the top of an iteration after a conversation   *)
(* of up to MaxTurns turns, with and without text, one text longer than    *)
(* the cut; a signal then makes it save its checkpoint                     *)
(***************************************************************************)
MaxTurns == 4

\* a text of 501 characters
LongText == [i \in 1..501 |-> IF i = 1 THEN "a" ELSE IF i = 501 THEN "z" ELSE "x"]

ContextTexts == {<<>>, <<"t">>, LongText}

\* what one turn adds to the conversation: the assistant message alone (a
\* turn that asks for tools and names none), or with the tool message of its call
TurnMessages ==
    {<<Msg("assistant", text, <<>>, 0)>> : text \in ContextTexts}
    \cup {<<Msg("assistant", text, <<WaitCall(1)>>, 0),
            Msg("tool", <<ExecCheckpointAndWait(NoArgs)>>, <<>>, 1)>> :
              text \in ContextTexts}

RECURSIVE Conversations(_)
Conversations(n) ==
    IF n = 0
    THEN {<<Msg("system", BuildSystemPrompt(BuildTools(AllCapabilities)), <<>>, 0),
            Msg("user", <<"p">>, <<>>, 0)>>}
    ELSE Conversations(n - 1)
         \cup {conv \o turn : conv \in Conversations(n - 1), turn \in TurnMessages}

CountRole(msgs, role) == Cardinality({i \in 1..Len(msgs) : msgs[i].role = role})

InitContext ==
    /\ SseIdle
    /\ pc = "top"
    /\ task = TaskWith(AbsentBudget)
    /\ MainIdle
    /\ state_file = MissingFile
    /\ messages \in Conversations(MaxTurns)
    /\ iteration = CountRole(messages, "assistant")
    /\ total_in = 0
    /\ total_out = 0
    /\ max_tokens_budget = NoBudget
    /\ spawned_children = <<>>
    /\ pending_children = <<>>
    /\ decisions = <<>>
    /\ artifacts = <<>>
    /\ tool_queue = <<>>
    /\ result = NoResult
    /\ tools = BuildTools(task.capabilities)
    /\ life = 1
    /\ calls = CountRole(messages, "assistant")
    /\ dispatched = CountRole(messages, "tool")
    /\ ckpt_writes = 0
    /\ spent = 0
    /\ reported = NoneReported
    /\ signal_at = "none"
    /\ WorldIdle
    /\ ShellIdle

NextContext ==
    \/ TopOfIteration
    \/ OnSignal

SpecContext == InitContext /\ [][NextContext]_vars

(***************************************************************************)
(* SpecStop: one lifetime whose model answers with a normal stop and no    *)
(* tool call, under every capability set and budget                        *)
(***************************************************************************)
StopTasks ==
    {[TaskWith(b) EXCEPT !.capabilities = caps] :
        b \in LoopBudgets, caps \in SUBSET AllCapabilities}

StopResponses ==
    [fails : {FALSE}, usage : Usages, finish_reason : {"stop", "end_turn"},
     content : Texts, tool_calls : {<<>>}]

InitStop ==
    /\ SseIdle
    /\ pc = "init"
    /\ task \in StopTasks
    /\ ProcessIdle
    /\ ShellIdle

NextStop ==
    \/ MainStart("written")
    \/ TopOfIteration
    \/ \E resp \in StopResponses : LLMReturns(resp)
    \/ OnSignal
    \/ MainFinish("written")

SpecStop == InitStop /\ [][NextStop]_vars

(***************************************************************************)
(* SpecStart: the start of main for each task descriptor and each state    *)
(* file, followed by a lifetime of stop answers                            *)
(***************************************************************************)
StartTasks == {TaskWith(AbsentBudget), MissingTask, MalformedTask, EmptyPromptTask}

StartFiles ==
    {MissingFile, GarbageFile, UndecodableFile,
     JsonObjectFile(WaitingCheckpoint(TaskName, <<"a">>, <<>>, <<>>, <<>>))}

InitStart ==
    /\ SseIdle
    /\ pc = "init"
    /\ task \in StartTasks
    /\ MainIdle
    /\ state_file \in StartFiles
    /\ LoopIdle
    /\ WorldIdle
    /\ ShellIdle

NextStart ==
    \/ MainStart("written")
    \/ TopOfIteration
    \/ \E resp \in StopResponses : LLMReturns(resp)
    \/ OnSignal
    \/ MainFinish("written")

SpecStart == InitStart /\ [][NextStart]_vars

(***************************************************************************)
(* The SDK's stream parser: _streaming.py                                  *)
(***************************************************************************)
\* "data: "
DataPrefix == <<"d", "a", "t", "a", ":", " ">>

\* "[DONE]"
DoneText == <<"[", "D", "O", "N", "E", "]">>

\* the payload keeps the space that ends the prefix
PayloadFromSpace(line) == SubSeq(line, 6, Len(line))

\* line[6:]
PayloadOf(line) == SubSeq(line, 7, Len(line))

\* json.loads on the texts of this model: surrounding blanks are skipped, {}
\* and 7 are JSON, every other text raises JSONDecodeError
JsonLoads(text) ==
    LET t == Strip(text) IN
    IF t = <<"{", "}">> THEN [raised |-> FALSE, value |-> "{}"]
    ELSE IF t = <<"7">> THEN [raised |-> FALSE, value |-> "7"]
    ELSE [raised |-> TRUE, value |-> "none"]

\* one pass of the for loop of iter_sse_events and aiter_sse_events
SseStep ==
    /\ IF next_line >= Len(response)
       THEN /\ sse_pc' = "returned"
            /\ UNCHANGED <<next_line, events>>
       ELSE LET line == response[next_line + 1] IN
            /\ next_line' = next_line + 1
            /\ IF ~StartsWith(line, DataPrefix)
               THEN UNCHANGED <<events, sse_pc>>
               ELSE LET data == PayloadOf(line) IN
                    IF data = DoneText
                    THEN sse_pc' = "returned" /\ UNCHANGED events
                    ELSE IF JsonLoads(data).raised
                    THEN sse_pc' = "raised" /\ UNCHANGED events
                    ELSE /\ events' = Append(events, JsonLoads(data).value)
                         /\ UNCHANGED sse_pc
    /\ UNCHANGED <<response, procVars, loopVars, histVars, shellVars, worldVars>>

\* iter_sse_events
IterSseEvents == sse_pc = "iter" /\ SseStep

\* aiter_sse_events
AiterSseEvents == sse_pc = "aiter" /\ SseStep

(***************************************************************************)
(* SpecSse: the two generators run over every stream of up to MaxLines     *)
(* lines                                                                   *)
(***************************************************************************)
MaxLines == 3

\* data lines with a JSON payload, the end marker, an empty line, a comment,
\* a field without the space, a payload that is no JSON, an empty payload
SseLines ==
    {DataPrefix \o <<"{", "}">>, DataPrefix \o <<"7">>, DataPrefix \o DoneText,
     <<>>, <<":", "k">>, <<"d", "a", "t", "a", ":", "7">>,
     DataPrefix \o <<"x">>, DataPrefix}

InitSse ==
    /\ pc = "sdk"
    /\ task = TaskWith(AbsentBudget)
    /\ ProcessIdle
    /\ ShellIdle
    /\ response \in UNION {[1..n -> SseLines] : n \in 0..MaxLines}
    /\ next_line = 0
    /\ events = <<>>
    /\ sse_pc \in {"iter", "aiter"}

NextSse ==
    \/ IterSseEvents
    \/ AiterSseEvents

SpecSse == InitSse /\ [][NextSse]_vars

(***************************************************************************)
(* SpecBoot: the start of main for each capability set, beside each state  *)
(* file and each inbox, followed by a lifetime of stop answers             *)
(***************************************************************************)
BootTasks ==
    {[TaskWith(AbsentBudget) EXCEPT !.capabilities = caps] :
        caps \in SUBSET AllCapabilities}

\* the conversation of an earlier lifetime that was cut into the checkpoint
BootContext ==
    <<Msg("system", BuildSystemPrompt(BuildTools(AllCapabilities)), <<>>, 0),
      Msg("user", <<"p">>, <<>>, 0), Msg("assistant", <<"t">>, <<>>, 0)>>

BootFiles ==
    {MissingFile, GarbageFile,
     JsonObjectFile(WaitingCheckpoint(TaskName, <<"a">>, <<>>, <<>>, <<>>)),
     JsonObjectFile(WaitingCheckpoint(TaskName, <<"a">>, <<"a">>, <<>>, BootContext))}

BootInboxes == {<<>>, <<InboxEntry("a", ChildResult("completed", "s", Absent))>>}

InitBoot ==
    /\ SseIdle
    /\ pc = "init"
    /\ task \in BootTasks
    /\ killed = FALSE
    /\ checkpoint = NoCheckpoint
    /\ child_results \in BootInboxes
    /\ resume_context = <<>>
    /\ result_file = NoResultFile
    /\ state_file \in BootFiles
    /\ LoopIdle
    /\ WorldIdle
    /\ ShellIdle

NextBoot ==
    \/ MainStart("written")
    \/ TopOfIteration
    \/ \E resp \in StopResponses : LLMReturns(resp)
    \/ OnSignal
    \/ MainFinish("written")

SpecBoot == InitBoot /\ [][NextBoot]_vars

(***************************************************************************)
(* SpecReason: one lifetime whose model answers with a stop reason that is *)
(* neither a normal stop nor a tool-call stop, and with no tool call.  A   *)
(* length stop reports one prompt token and a content_filter stop none, so *)
(* that the totals tell which reason a turn had.                           *)
(***************************************************************************)
OtherReasons == {"length", "content_filter"}

ReasonResponses ==
    {resp \in [fails : {FALSE}, usage : Usages, finish_reason : OtherReasons,
               content : Texts, tool_calls : {<<>>}] :
        resp.finish_reason = "length" <=> UsageIn(resp) = 1}

InitReason ==
    /\ SseIdle
    /\ pc = "init"
    /\ task \in StopTasks
    /\ ProcessIdle
    /\ ShellIdle

NextReason ==
    \/ MainStart("written")
    \/ TopOfIteration
    \/ \E resp \in ReasonResponses : LLMReturns(resp)
    \/ OnSignal
    \/ MainFinish("written")

SpecReason == InitReason /\ [][NextReason]_vars

(***************************************************************************)
(* SpecStopCalls: one lifetime whose model asks for tools in turns that    *)
(* end with a tool-call stop and in turns that end with a normal stop.     *)
(* The requests of a tool-call stop have the id 1, those of a normal stop  *)
(* the ids 2 and 3, so that a tool message tells which turn it answers.    *)
(***************************************************************************)
StopCallTurns == {<<SpawnCall(2, FALSE)>>, <<SpawnCall(2, TRUE), WaitCall(3)>>}

StopCallResponses ==
    [fails : {FALSE}, usage : {NoUsage}, finish_reason : {"tool_calls"},
     content : Texts, tool_calls : {<<SpawnCall(1, FALSE)>>}]
    \cup [fails : {FALSE}, usage : {NoUsage}, finish_reason : {"stop", "end_turn"},
          content : Texts, tool_calls : StopCallTurns]

InitStopCalls ==
    /\ SseIdle
    /\ pc = "init"
    /\ task = TaskWith(AbsentBudget)
    /\ ProcessIdle
    /\ ShellIdle

NextStopCalls ==
    \/ MainStart("written")
    \/ (WillCall => calls < MaxCalls) /\ TopOfIteration
    \/ \E resp \in StopCallResponses : LLMReturns(resp)
    \/ \E ext \in SpawnExts : DispatchTool(ext)
    \/ OnSignal
    \/ MainFinish("written")

SpecStopCalls == InitStopCalls /\ [][NextStopCalls]_vars

(***************************************************************************)
(* SpecBudget: one lifetime under each shape of maxTokens: absent, the     *)
(* numbers 0 and 1, the strings "0" and "1", a string that is no integer   *)
(***************************************************************************)
BudgetShapes ==
    {AbsentBudget, IntBudget(0), IntBudget(1), StrBudget(0), StrBudget(1), BadStrBudget}

BudgetResponses ==
    {resp \in LoopResponses :
        resp.fails \/ (resp.usage.present
                       /\ resp.usage.prompt_tokens = resp.usage.completion_tokens)}

InitBudget ==
    /\ SseIdle
    /\ pc = "init"
    /\ task \in {TaskWith(b) : b \in BudgetShapes}
    /\ ProcessIdle
    /\ ShellIdle

NextBudget ==
    \/ MainStart("written")
    \/ (WillCall => calls < MaxCalls) /\ TopOfIteration
    \/ \E resp \in BudgetResponses : WithinTokens(resp) /\ LLMReturns(resp)
    \/ \E ext \in LoopExts : DispatchTool(ext)
    \/ OnSignal
    \/ MainFinish("written")

SpecBudget == InitBudget /\ [][NextBudget]_vars

(***************************************************************************)
(* SpecRelife: the lifetimes of one task whose model spawns children or    *)
(* stops, each restart finding what the lifetime before left               *)
(***************************************************************************)
RelifeResponses ==
    {FailedCall}
    \cup [fails : {FALSE}, usage : {NoUsage}, finish_reason : {"stop", "tool_calls"},
          content : {<<"t">>}, tool_calls : {<<>>, <<SpawnCall(1, FALSE)>>}]

InitRelife ==
    /\ SseIdle
    /\ pc = "init"
    /\ task = TaskWith(AbsentBudget)
    /\ ProcessIdle
    /\ ShellIdle

NextRelife ==
    \/ MainStart("written")
    \/ (WillCall => calls < MaxCalls) /\ TopOfIteration
    \/ \E resp \in RelifeResponses : LLMReturns(resp)
    \/ DispatchTool(SpawnExitZero("a"))
    \/ OnSignal
    \/ MainFinish("written")
    \/ \E inbox \in LifeInboxes : Restart(inbox)

SpecRelife == InitRelife /\ [][NextRelife]_vars

(***************************************************************************)
(* Vocabulary of the properties                                            *)
(***************************************************************************)
\* sub occurs in text
Contains(text, sub) ==
    \E i \in 0..(Len(text) - Len(sub)) : SubSeq(text, i + 1, i + Len(sub)) = sub

\* the list of the environment variable has entries, however it is read
Configured(raw) == PolicyList(raw) # <<>> /\ ListConfigured(EnvList(raw))

\* word is an entry of the list, as either function reads the variable
Listed(word, raw) == InList(word, PolicyList(raw)) \/ InList(word, EnvList(raw))

\* word is an entry of the list, as both functions read the variable
ListedSurely(word, raw) == InList(word, PolicyList(raw)) /\ InList(word, EnvList(raw))

\* the exits of the loop that are suspensions
SuspensionExits == {"killed", "budget", "iteration_limit"}

\* the loop returns in this step
LoopReturns == pc # "returned" /\ pc' = "returned"

\* a token budget of N >= 1 is in force and the reported usage has reached it
UsageReachedBudget ==
    /\ max_tokens_budget.set
    /\ max_tokens_budget.n >= 1
    /\ total_in + total_out >= max_tokens_budget.n

\* the loop stands at the top of an iteration (the ceiling is not yet reached)
AtTopOfIteration == pc = "top" /\ iteration < MAX_ITERATIONS

\* index of the last assistant message, 0 when there is none
LastAssistant(msgs) ==
    IF \E i \in 1..Len(msgs) : msgs[i].role = "assistant"
    THEN CHOOSE i \in 1..Len(msgs) :
            /\ msgs[i].role = "assistant"
            /\ \A j \in (i + 1)..Len(msgs) : msgs[j].role # "assistant"
    ELSE 0

\* the messages after the last assistant turn are the tool results of its calls,
\* one per call, in request order
TurnComplete(msgs) ==
    LET a == LastAssistant(msgs) IN
    a > 0 =>
        /\ Len(msgs) - a = Len(msgs[a].tool_calls)
        /\ \A k \in 1..(Len(msgs) - a) :
              /\ msgs[a + k].role = "tool"
              /\ msgs[a + k].tool_call_id = msgs[a].tool_calls[k].id

\* names of the child references of a checkpoint
ChildNamesOf(data) ==
    {data.completedChildren[i].name : i \in 1..Len(data.completedChildren)}
    \cup {data.pendingChildren[i].name : i \in 1..Len(data.pendingChildren)}

(***************************************************************************)
(* C1                                                                      *)
(***************************************************************************)
\* C1 as stated: at the top of an iteration at which the usage has reached the
\* budget N, the loop makes no model call, writes a checkpoint and returns
\* budget_exceeded.
C1_BudgetStopsAsStated ==
    [][(AtTopOfIteration /\ UsageReachedBudget /\ pc' # pc) =>
          /\ calls' = calls
          /\ ckpt_writes' = ckpt_writes + 1
          /\ pc' = "returned"
          /\ result'.status = "budget_exceeded"]_vars

\* C1 amended: at the top of an iteration at which the usage has reached the
\* budget N >= 1, the loop makes no model call, calls save_checkpoint once and
\* returns: with status budget_exceeded when the cancellation flag is not set,
\* with status failed when it is (the flag is checked first).
C1_BudgetStops ==
    [][(AtTopOfIteration /\ UsageReachedBudget /\ pc' # pc) =>
          /\ calls' = calls
          /\ ckpt_writes' = ckpt_writes + 1
          /\ pc' = "returned"
          /\ result'.status = IF killed THEN "failed" ELSE "budget_exceeded"]_vars

C1_Witness ==
    /\ pc = "returned"
    /\ result.status = "budget_exceeded"
    /\ UsageReachedBudget
    /\ calls >= 1
    /\ ckpt_writes = 1

(***************************************************************************)
(* C2                                                                      *)
(***************************************************************************)
\* C2: with an allow-list configured, a run_shell dispatch whose command has a
\* pipe segment with a leading token outside the allow-list is rejected with the
\* error that names a command, and no subprocess is started.
C2_PipeSegmentsAllowListed ==
    LET bases == BaseCommands(command)
        offending == {i \in 1..Len(bases) : ~Listed(bases[i], allowed_env)}
    IN  (pc = "shell_done" /\ Configured(allowed_env) /\ offending # {}) =>
            /\ ~shell_result.success
            /\ ~shell_result.ran
            /\ subprocesses = <<>>
            /\ shell_result.error.kind \in {"not_in_allowed_list", "not_allowed_by_policy"}
            /\ shell_result.error.cmd # <<>>

(***************************************************************************)
(* C3                                                                      *)
(***************************************************************************)
\* C3: with a deny-list configured, a run_shell dispatch whose command has a
\* pipe segment (the first or a later one) with a leading token equal to a
\* deny-list entry is rejected before any process is started.
C3_PipeSegmentsDenyListed ==
    LET bases == BaseCommands(command)
    IN  (pc = "shell_done" /\ \E i \in 1..Len(bases) : ListedSurely(bases[i], denied_env)) =>
            /\ ~shell_result.success
            /\ ~shell_result.ran
            /\ subprocesses = <<>>

(***************************************************************************)
(* C4                                                                      *)
(***************************************************************************)
Mentions(text, kinds, name) ==
    \E i \in 1..Len(text) : text[i].kind \in kinds /\ text[i].name = name

\* C4: the resume text mentions every completed child of the checkpoint and
\* every child of the inbox, and a child that is in both is listed in one of
\* the two sections only.
C4_ResumeListsEachChildOnce ==
    LET done == {checkpoint.data.completedChildren[i].name :
                    i \in 1..Len(checkpoint.data.completedChildren)}
        arrived == {child_results[i].name : i \in 1..Len(child_results)}
    IN  pc = "resume_done" =>
            /\ \A n \in done \cup arrived :
                  Mentions(resume_context, {"new_child", "prev_child"}, n)
            /\ \A n \in done \cap arrived :
                  ~(/\ Mentions(resume_context, {"new_child"}, n)
                    /\ Mentions(resume_context, {"prev_child"}, n))

(***************************************************************************)
(* C5                                                                      *)
(***************************************************************************)
\* C5: no lifetime has a model call in flight when the tokens reported over all
\* the lifetimes of the task had already reached the budget ceiling.
C5_BudgetNotSpentTwice ==
    (pc = "llm" /\ max_tokens_budget.set /\ max_tokens_budget.n >= 1) =>
        spent < max_tokens_budget.n

(***************************************************************************)
(* C6                                                                      *)
(***************************************************************************)
\* C6: the child references of the checkpoint a process loaded are still in the
\* checkpoint that process wrote when it suspended again.
C6_ChildrenSurviveReincarnation ==
    (/\ checkpoint.loaded
     /\ pc \in {"returned", "exited"}
     /\ ckpt_writes > 0
     /\ state_file.kind = "json_object") =>
        ChildNamesOf(checkpoint.data) \subseteq ChildNamesOf(state_file.data)

(***************************************************************************)
(* C7                                                                      *)
(***************************************************************************)
\* C7: the loop never makes more than MAX_ITERATIONS model calls; it is back at
\* the top of the loop only after one model call per iteration; and a run that
\* no final turn, failed call, cancellation or budget ended has made exactly
\* MAX_ITERATIONS calls, written a checkpoint and returned failed.
C7_IterationCeiling ==
    /\ calls <= MAX_ITERATIONS
    /\ pc = "top" => calls = iteration
    /\ (/\ pc = "returned"
        /\ result.output.kind \notin
              {"content", "unexpected_stop", "llm_failed", "killed", "budget"}) =>
            /\ calls = MAX_ITERATIONS
            /\ result.status = "failed"
            /\ result.output.kind = "iteration_limit"
            /\ ckpt_writes = 1

C7_Witness ==
    /\ pc = "returned"
    /\ result.output.kind = "iteration_limit"
    /\ result.status = "failed"
    /\ calls = MAX_ITERATIONS
    /\ dispatched = MAX_ITERATIONS
    /\ ~killed

(***************************************************************************)
(* C8                                                                      *)
(***************************************************************************)
\* C8: a step taken at the top of an iteration with the cancellation flag set
\* calls save_checkpoint and returns; it issues no model call, dispatches no
\* tool and appends nothing to the conversation.
C8_CancelAtTop ==
    [][(AtTopOfIteration /\ killed /\ pc' # pc) =>
          /\ pc' = "returned"
          /\ result'.output.kind = "killed"
          /\ ckpt_writes' = ckpt_writes + 1
          /\ calls' = calls
          /\ dispatched' = dispatched
          /\ messages' = messages]_vars

C8_Witness ==
    /\ pc = "returned"
    /\ killed
    /\ result.output.kind = "killed"
    /\ ckpt_writes = 1
    /\ calls >= 1
    /\ signal_at = "top"

(***************************************************************************)
(* C9                                                                      *)
(***************************************************************************)
\* C9: with the flag set during a model call or a tool-call turn, the loop does
\* not act on it there: the call's answer is taken, each remaining tool call of
\* the turn is dispatched and its result appended, and the return for
\* cancellation happens only from the top of an iteration, the turn complete.
C9_CancelOnlyAtTop ==
    [][/\ (killed /\ pc \in {"llm", "tools"} /\ LoopReturns) =>
              result'.output.kind # "killed" /\ ckpt_writes' = ckpt_writes
       /\ (killed /\ pc = "llm" /\ pc' # pc /\ ~LoopReturns) =>
              /\ Len(messages') = Len(messages) + 1
              /\ messages'[Len(messages')].role = "assistant"
       /\ (killed /\ pc = "tools" /\ <<pc, tool_queue>>' # <<pc, tool_queue>>) =>
              /\ dispatched' = dispatched + 1
              /\ tool_queue' = Tail(tool_queue)
              /\ Len(messages') = Len(messages) + 1
              /\ messages'[Len(messages')].role = "tool"
              /\ messages'[Len(messages')].tool_call_id = Head(tool_queue).id
       /\ (killed /\ pc \in {"llm", "tools"} /\ pc' = "top") =>
              tool_queue' = <<>> /\ TurnComplete(messages')
       /\ (LoopReturns /\ result'.output.kind = "killed") =>
              pc = "top" /\ tool_queue = <<>> /\ TurnComplete(messages)]_vars

C9_Witness ==
    /\ pc = "returned"
    /\ result.output.kind = "killed"
    /\ signal_at = "tools"
    /\ LastAssistant(messages) > 0
    /\ Len(messages[LastAssistant(messages)].tool_calls) = 2
    /\ TurnComplete(messages)

Unloadable(file) ==
    \/ file.kind \in {"missing", "garbage", "undecodable", "json_other"}
    \/ file.kind = "json_object" /\ file.data.version # 1

\* C11: load_checkpoint never raises; it returns None when the file is missing,
\* is not parseable JSON, is JSON but not an object, or carries a version other
\* than 1, and in every other case the whole stored object.
C11_LoadAbsentOrWhole ==
    pc \in {"loaded", "reloaded"} =>
        /\ ~checkpoint.raised
        /\ IF Unloadable(state_file)
           THEN ~checkpoint.loaded
           ELSE checkpoint.loaded /\ checkpoint.data = state_file.data

(***************************************************************************)
(* C12                                                                     *)
(***************************************************************************)
\* C12: for every checkpoint value, whatever version it carries or lacks,
\* save_checkpoint then load_checkpoint returns a checkpoint equal to it in
\* every field other than version, and with version 1.
C12_SaveLoadRoundTrip ==
    pc = "reloaded" =>
        /\ checkpoint.loaded
        /\ checkpoint.data = [state EXCEPT !.version = 1]

(***************************************************************************)
(* C13                                                                     *)
(***************************************************************************)
\* the loop dispatches the tool call at the head of the queue in this step
Dispatches == pc = "tools" /\ tool_queue # <<>> /\ dispatched' = dispatched + 1

\* the call being dispatched
Dispatched == Head(tool_queue)

\* the outcome in the tool message appended last
LastOutcome(msgs) == msgs[Len(msgs)].content[1]

\* the arguments are a JSON object whose values are strings
WellFormed(args) == args.object /\ args.typed

\* the path begins with one of the prefixes
UnderOneOf(path, prefixes) ==
    \E i \in 1..Len(prefixes) :
        /\ Len(path) >= Len(prefixes[i])
        /\ \A k \in 1..Len(prefixes[i]) : path[k] = prefixes[i][k]

\* C13: for every path that does not begin with one of the configured prefixes
\* (five for read, three for write), read_file and write_file return a failure
\* outcome, and no file or directory is created, modified or opened.
C13_OutsidePrefixesNoAccess ==
    [][(/\ Dispatches
        /\ WellFormed(Dispatched.args)
        /\ \/ /\ Dispatched.name = "read_file"
              /\ ~UnderOneOf(Dispatched.args.path, ALLOWED_READ_PREFIXES)
           \/ /\ Dispatched.name = "write_file"
              /\ ~UnderOneOf(Dispatched.args.path, ALLOWED_WRITE_PREFIXES))
       => /\ Len(ALLOWED_READ_PREFIXES) = 5
          /\ Len(ALLOWED_WRITE_PREFIXES) = 3
          /\ pc' # "crashed"
          /\ Len(messages') = Len(messages) + 1
          /\ ~LastOutcome(messages').success
          /\ fs' = fs
          /\ fs_ops' = fs_ops]_vars

C13_Witness ==
    /\ pc = "top"
    /\ dispatched = 1
    /\ LastOutcome(messages).error = "Write access denied"
    /\ fs = SomeFiles
    /\ fs_ops = <<>>

(***************************************************************************)
(* C15                                                                     *)
(***************************************************************************)
\* C15: execute_tool returns an outcome carrying a success flag and lets no
\* exception escape, for every tool name, every argument value and every
\* failure of the underlying operation.
C15_DispatchNeverRaises ==
    [][Dispatches =>
          /\ pc' # "crashed"
          /\ Len(messages') = Len(messages) + 1
          /\ LastOutcome(messages').success \in BOOLEAN
          /\ ~LastOutcome(messages').raised]_vars

C15_Witness ==
    /\ pc = "top"
    /\ dispatched = 1
    /\ external.kind = "timeout"
    /\ LastOutcome(messages).error = "exception"
    /\ ~LastOutcome(messages).success

(***************************************************************************)
(* C16                                                                     *)
(***************************************************************************)
\* C16: for each delegation tool (spawn_task, check_status, get_result,
\* cancel_task), a controller command that exits non-zero, or whose standard
\* output is not a parseable JSON object, yields a success-false outcome.
C16_ControllerFailureIsToolFailure ==
    [][(/\ Dispatches
        /\ Dispatched.name \in {"spawn_task", "check_status", "get_result", "cancel_task"}
        /\ controller_cmds' # controller_cmds
        /\ \/ external.kind = "exit_nonzero"
           \/ external.kind = "exit_zero" /\ external.stdout # "object")
       => /\ pc' # "crashed"
          /\ ~LastOutcome(messages').success]_vars

(***************************************************************************)
(* C14                                                                     *)
(***************************************************************************)
\* the controller commands of the spawn family
SpawnFamily == {"spawn", "status", "result", "cancel"}

\* C14: a tool family is executed only if the capability set grants it: with
\* `shell` absent no shell command is ever run, and with `spawn` absent no
\* controller spawn/status/result/cancel command is ever issued, whatever
\* tool names the model's turns request.
C14_CapabilityGatesExecution ==
    /\ "shell" \notin task.capabilities => subprocesses = <<>>
    /\ "spawn" \notin task.capabilities =>
           \A i \in 1..Len(controller_cmds) : controller_cmds[i] \notin SpawnFamily

(***************************************************************************)
(* C19                                                                     *)
(***************************************************************************)
\* the files written through write_file under /outbox/artifacts/ (the run
\* starts with none, and a write that fails leaves none), by relative path
WrittenArtifacts ==
    {RemovePrefix(path, ArtifactsPrefix) :
        path \in {q \in DOMAIN fs : StartsWith(q, ArtifactsPrefix)}}

\* C19: every file successfully written through write_file under
\* /outbox/artifacts/ during a run is listed, by its path relative to that
\* directory, in the artifacts of the final result record, whatever status the
\* run ends with.
C19_ArtifactsReported ==
    (pc = "exited" /\ result_file.written) =>
        \A name \in WrittenArtifacts : InList(name, result_file.artifacts)

Terminated == pc \in {"exited", "exited_waiting", "died", "crashed"}

\* C18: every termination of the process (missing or unreadable task
\* descriptor, empty prompt, and every outcome of the loop) leaves a result
\* record and a usage record written to the outbox.
C18_EveryExitLeavesRecords ==
    Terminated => result_file.written /\ usage_file.written

(***************************************************************************)
(* C20                                                                     *)
(***************************************************************************)
\* the status the loop gives a suspension of this kind
SuspensionStatus(kind) == IF kind = "budget" THEN "budget_exceeded" ELSE "failed"

\* C20: a failure to write the checkpoint file or the result file is swallowed
\* and never masks the computed result: whether or not the checkpoint write
\* succeeded, the loop returns the status of the suspension and the token
\* counts reached, and whether or not the result write succeeded, main goes on
\* to report the computed result to the controller.
C20_PersistenceFailuresSwallowed ==
    [][/\ (LoopReturns /\ result'.output.kind \in SuspensionExits) =>
              /\ result'.status = SuspensionStatus(result'.output.kind)
              /\ result'.tokens_in = total_in
              /\ result'.tokens_out = total_out
       /\ (pc = "returned" /\ pc' # "returned") =>
              crd_report' = Report(result.output, result.tokens_in, result.tokens_out)]_vars

(***************************************************************************)
(* C21                                                                     *)
(***************************************************************************)
\* the model call ends in this step with no assistant message taken: it raised
CallFails == pc = "llm" /\ pc' # "llm" /\ messages' = messages

\* C21: when a model call fails the loop returns status failed at once, with
\* the token totals accumulated so far; it writes no checkpoint, dispatches no
\* tool and makes no further model call.
C21_FailedCallReturnsFailed ==
    [][CallFails =>
          /\ pc' = "returned"
          /\ result'.status = "failed"
          /\ result'.tokens_in = total_in
          /\ result'.tokens_out = total_out
          /\ UNCHANGED <<total_in, total_out, state_file, ckpt_writes, dispatched,
                         calls, tool_queue, iteration>>]_vars

C21_Witness ==
    /\ pc = "exited"
    /\ result.output.kind = "llm_failed"
    /\ calls = 2
    /\ result.tokens_in + result.tokens_out > 0
    /\ result_file.status = "failed"

(***************************************************************************)
(* C22                                                                     *)
(***************************************************************************)
\* the names execute_tool knows
KnownTools ==
    {"spawn_task", "check_status", "get_result", "cancel_task", "checkpoint_and_wait",
     "list_roles", "describe_role", "run_shell", "read_file", "write_file"}

\* the first word of the command is outside a configured allow-list or inside
\* a configured deny-list
ShellRefuses(cmd) ==
    \/ /\ ListConfigured(EnvList(allowed_env))
       /\ ~InList(FirstWord(cmd), EnvList(allowed_env))
    \/ /\ ListConfigured(EnvList(denied_env))
       /\ InList(FirstWord(cmd), EnvList(denied_env))

\* the call is one the dispatcher refuses: unknown name, path outside the
\* prefixes, command refused by the shell filter
Refused(call) ==
    \/ call.name \notin KnownTools
    \/ /\ WellFormed(call.args)
       /\ \/ /\ call.name = "read_file"
             /\ call.args.path # <<>>
             /\ ~UnderOneOf(call.args.path, ALLOWED_READ_PREFIXES)
          \/ /\ call.name = "write_file"
             /\ call.args.path # <<>>
             /\ ~UnderOneOf(call.args.path, ALLOWED_WRITE_PREFIXES)
          \/ /\ call.name = "run_shell"
             /\ call.args.command # <<>>
             /\ ShellRefuses(call.args.command)

\* C22: a tool call rejected by the shell policy or by the path allowlist, or
\* naming an unknown tool, does not end the run: its success-false outcome is
\* appended to the conversation as a tool message, and the loop goes on with
\* the turn's next call or, the turn done, with the next iteration, whose
\* model call it makes unless cancellation, budget or ceiling stop it.
C22_RejectionContinues ==
    [][/\ (Dispatches /\ Refused(Dispatched)) =>
              /\ Len(messages') = Len(messages) + 1
              /\ SubSeq(messages', 1, Len(messages)) = messages
              /\ messages'[Len(messages')].role = "tool"
              /\ messages'[Len(messages')].tool_call_id = Dispatched.id
              /\ ~LastOutcome(messages').success
              /\ tool_queue' = Tail(tool_queue)
              /\ pc' = IF tool_queue' = <<>> THEN "top" ELSE "tools"
              /\ iteration' = IF tool_queue' = <<>> THEN iteration + 1 ELSE iteration
              /\ UNCHANGED <<result, result_file, subprocesses, fs>>
       /\ (pc = "top" /\ pc' # "top" /\ WillCall) => pc' = "llm" /\ calls' = calls + 1]_vars

C22_Witness ==
    /\ pc = "llm"
    /\ calls = 2
    /\ Len(messages) = 6
    /\ messages[4].content[1].error = "Unknown tool"
    /\ messages[5].content[1].error = "not_in_allowed_list"
    /\ ~messages[6].content[1].success

(***************************************************************************)
(* C23                                                                     *)
(***************************************************************************)
\* the calls requested by the turn being worked on
Requested(msgs) == msgs[LastAssistant(msgs)].tool_calls

\* the tool messages appended since that turn
Answered(msgs) == Len(msgs) - LastAssistant(msgs)

\* C23: for a tool-call turn requesting calls c1..cn the loop dispatches them
\* one at a time in request order, and before the next model call has appended
\* exactly one tool message per call, in the same order, each carrying that
\* call's id and the encoded outcome of that call.
C23_OneToolMessagePerCallInOrder ==
    [][/\ pc = "tools" =>
              /\ LastAssistant(messages) > 0
              /\ tool_queue = SubSeq(Requested(messages), Answered(messages) + 1,
                                     Len(Requested(messages)))
       /\ Dispatches =>
              /\ Dispatched = Requested(messages)[Answered(messages) + 1]
              /\ messages' = Append(messages,
                                    [role |-> "tool",
                                     content |-> <<ExecuteTool(Dispatched.name,
                                                               Dispatched.args, external)>>,
                                     tool_calls |-> <<>>,
                                     tool_call_id |-> Dispatched.id])
              /\ tool_queue' = Tail(tool_queue)
       /\ (pc # "llm" /\ pc' = "llm" /\ LastAssistant(messages) > 0) =>
              /\ Answered(messages) = Len(Requested(messages))
              /\ \A k \in 1..Len(Requested(messages)) :
                    /\ messages[LastAssistant(messages) + k].role = "tool"
                    /\ messages[LastAssistant(messages) + k].tool_call_id =
                           Requested(messages)[k].id]_vars

C23_Witness ==
    /\ pc = "llm"
    /\ calls = 2
    /\ Len(Requested(messages)) = 3
    /\ Answered(messages) = 3
    /\ \A k \in 1..3 : messages[LastAssistant(messages) + k].tool_call_id = k

(***************************************************************************)
(* C24                                                                     *)
(***************************************************************************)
\* the child names of a list of a checkpoint
NamesIn(children) == {children[i].name : i \in 1..Len(children)}

\* C24: in every checkpoint written by the loop, after any sequence of
\* successful synchronous and asynchronous spawns (the same child name
\* returned more than once included), no child name appears in both
\* completedChildren and pendingChildren.
C24_CompletedPendingDisjoint ==
    state_file.kind = "json_object" =>
        NamesIn(state_file.data.completedChildren)
            \cap NamesIn(state_file.data.pendingChildren) = {}

C24_Witness ==
    /\ pc = "returned"
    /\ ckpt_writes = 1
    /\ Len(spawned_children) = 2
    /\ spawned_children[1] = spawned_children[2]
    /\ Len(pending_children) = 1
    /\ state_file.kind = "json_object"
    /\ state_file.data.pendingChildren = PendingOf(pending_children)
    /\ state_file.data.completedChildren = <<>>

(***************************************************************************)
(* C25                                                                     *)
(***************************************************************************)
IsAssistantText(msg) == msg.role = "assistant" /\ msg.content # <<>>

\* the texts of the assistant messages that have one, in conversation order
AssistantTexts(msgs) ==
    LET kept == SelectSeq(msgs, IsAssistantText)
    IN  [i \in 1..Len(kept) |-> kept[i].content]

\* the last n entries of a list
LastOf(list, n) ==
    IF Len(list) <= n THEN list ELSE SubSeq(list, Len(list) - n + 1, Len(list))

\* the first n characters of a text
CutTo(text, n) == IF Len(text) <= n THEN text ELSE SubSeq(text, 1, n)

\* the context the claim describes
WindowOf(msgs) ==
    LET recent == LastOf(AssistantTexts(msgs), 3)
    IN  Join([i \in 1..Len(recent) |-> CutTo(recent[i], 500)], ContextSeparator)

\* C25: every checkpoint written by the loop carries version 1 and phase
\* waiting, and its accumulatedContext is built from at most the 3 most recent
\* assistant messages that have non-empty text, each cut to its first 500
\* characters, in conversation order; so its length is bounded whatever the
\* number of turns of the conversation.
C25_CheckpointWindow ==
    [][(ckpt_writes' = ckpt_writes + 1 /\ state_file'.kind = "json_object") =>
          /\ state_file'.data.version = 1
          /\ state_file'.data.phase = "waiting"
          /\ state_file'.data.accumulatedContext = WindowOf(messages)
          /\ Len(state_file'.data.accumulatedContext)
                 <= 3 * 500 + 2 * Len(ContextSeparator)]_vars

C25_Witness ==
    /\ pc = "returned"
    /\ state_file.kind = "json_object"
    /\ Len(AssistantTexts(messages)) = 4
    /\ AssistantTexts(messages)[1] = <<"t">>
    /\ AssistantTexts(messages)[2] = LongText
    /\ Len(state_file.data.accumulatedContext) = 500 + 2 * Len(ContextSeparator) + 2

(***************************************************************************)
(* C26                                                                     *)
(***************************************************************************)
\* C26: throughout a run the cumulative input and output token counters never
\* decrease, and the token counts in the loop result and in the result and
\* usage records equal the sums of the prompt and completion tokens reported
\* by all model calls made in that lifetime, on every exit path.
C26_TokenCountsAreSums ==
    [][/\ total_in' >= total_in
       /\ total_out' >= total_out
       /\ LoopReturns =>
              /\ result'.tokens_in = reported'.input
              /\ result'.tokens_out = reported'.output
       /\ (result_file'.written /\ result_file' # result_file) =>
              /\ result_file'.input = reported'.input
              /\ result_file'.output = reported'.output
       /\ (usage_file'.written /\ usage_file' # usage_file) =>
              /\ usage_file'.input = reported'.input
              /\ usage_file'.output = reported'.output
              /\ usage_file'.total = reported'.input + reported'.output]_vars

C26_Witness ==
    /\ pc = "exited"
    /\ calls = 2
    /\ reported = [input |-> 2, output |-> 0]
    /\ result_file.written /\ result_file.input = 2 /\ result_file.output = 0
    /\ usage_file.written /\ usage_file.total = 2

(***************************************************************************)
(* C27                                                                     *)
(***************************************************************************)
\* C27: when the first model turn ends with a normal stop and no tool calls,
\* the loop has issued exactly one model call, dispatches no tool, writes no
\* checkpoint and returns completed with that turn's text; the result record
\* then has status completed.
C27_StopCompletes ==
    [][/\ (pc = "llm" /\ pc' # "llm") =>
              /\ calls' = 1
              /\ pc' = "returned"
              /\ result'.status = "completed"
              /\ result'.output.text = messages'[Len(messages')].content
              /\ messages'[Len(messages')].role = "assistant"
              /\ dispatched' = 0
              /\ ckpt_writes' = 0
              /\ state_file' = MissingFile
       /\ (pc = "returned" /\ calls = 1 /\ pc' # "returned") =>
              /\ pc' = "exited"
              /\ result_file'.written
              /\ result_file'.status = "completed"
              /\ result_file'.summary.text = messages[Len(messages)].content
              /\ calls' = 1 /\ dispatched' = 0 /\ ckpt_writes' = 0]_vars

C27_Witness ==
    /\ pc = "exited"
    /\ calls = 1
    /\ task.capabilities = {}
    /\ result.output.text = <<"t">>
    /\ result_file.status = "completed"
    /\ Len(messages) = 3

(***************************************************************************)
(* C28                                                                     *)
(***************************************************************************)
\* task.json is missing, or its prompt is empty
BadDescriptor == task.kind = "missing" \/ (task.kind = "object" /\ task.prompt = <<>>)

\* C28: if the task descriptor is missing or its prompt is empty, main writes
\* a failed result with zero token usage and exits with a non-zero code,
\* before any checkpoint is read or written and before any model call; nothing
\* follows the exit.
C28_BadDescriptorDies ==
    [][/\ (pc = "init" /\ pc' # "init" /\ BadDescriptor) =>
              /\ pc' = "died"
              /\ result_file'.written
              /\ result_file'.status = "failed"
              /\ result_file'.input = 0 /\ result_file'.output = 0
              /\ usage_file' = [written |-> TRUE, input |-> 0, output |-> 0, total |-> 0]
              /\ checkpoint' = NoCheckpoint
              /\ state_file' = state_file
              /\ ckpt_writes' = 0
              /\ calls' = 0
              /\ messages' = <<>>
       /\ pc = "died" => pc' = "died" /\ UNCHANGED <<result_file, usage_file, state_file,
                                                  calls, ckpt_writes, checkpoint>>]_vars

C28_Witness ==
    /\ pc = "died"
    /\ task = EmptyPromptTask
    /\ state_file.kind = "json_object"
    /\ result_file.status = "failed"
    /\ usage_file.written
    /\ killed

(***************************************************************************)
(* C29                                                                     *)
(***************************************************************************)
IsDataLine(line) == Len(line) >= 6 /\ SubSeq(line, 1, 6) = DataPrefix

IsDoneLine(line) == line = DataPrefix \o DoneText

\* a data line whose payload is not JSON
IsBadLine(line) ==
    IsDataLine(line) /\ ~IsDoneLine(line) /\ JsonLoads(SubSeq(line, 7, Len(line))).raised

\* the index of the first line of the kind, or one past the last line
FirstIndex(lines, Kind(_)) ==
    IF \E i \in 1..Len(lines) : Kind(lines[i])
    THEN CHOOSE i \in 1..Len(lines) :
            Kind(lines[i]) /\ \A j \in 1..(i - 1) : ~Kind(lines[j])
    ELSE Len(lines) + 1

\* the parsed payloads of the data lines among the first n lines, in order
ParsedUpTo(lines, n) ==
    LET data == SelectSeq(SubSeq(lines, 1, n), IsDataLine)
    IN  [i \in 1..Len(data) |-> JsonLoads(SubSeq(data[i], 7, Len(data[i]))).value]

SseEnded == sse_pc \in {"returned", "raised"}

\* C29 as stated: the generator yields, in arrival order, the parsed payload of
\* every data line that precedes the first [DONE] line, and nothing else.
C29_YieldsAllBeforeDoneAsStated ==
    SseEnded => events = ParsedUpTo(response, FirstIndex(response, IsDoneLine) - 1)

IsStopLine(line) == IsDoneLine(line) \/ IsBadLine(line)

\* C29: iter_sse_events and its async twin yield, in arrival order, the parsed
\* payload of every data line that precedes the first line that is either the
\* [DONE] line or a data line whose payload is not JSON; lines without the
\* prefix are skipped; nothing that arrives after that line is yielded; at a
\* payload that is not JSON the generator raises instead of returning.
C29_YieldsAllBeforeDoneOrBadPayload ==
    LET stop == FirstIndex(response, IsStopLine)
        expected == ParsedUpTo(response, stop - 1)
    IN  /\ Len(events) <= Len(expected)
        /\ events = SubSeq(expected, 1, Len(events))
        /\ SseEnded => events = expected
        /\ sse_pc = "raised" <=>
               (SseEnded /\ stop <= Len(response) /\ IsBadLine(response[stop]))
        /\ sse_pc = "raised" => next_line = stop

C29_Witness ==
    /\ sse_pc = "raised"
    /\ Len(response) = 3
    /\ Len(events) = 1
    /\ IsDataLine(response[3]) /\ ~IsStopLine(response[3])

(***************************************************************************)
(* C30                                                                     *)
(***************************************************************************)
\* C30: for every command and every setting of the allow-list and deny-list
\* variables, run_shell rejects the command before starting a process exactly
\* when _check_shell_command_policy returns an error for it.
C30_RunShellAgreesWithPolicy ==
    (pc = "shell_done" /\ Strip(command) # <<>>) =>
        (~shell_result.ran <=>
             CheckShellCommandPolicy(command, allowed_env, denied_env) # NoError)

(***************************************************************************)
(* C31                                                                     *)
(***************************************************************************)
\* the outcomes of the spawn_task calls that returned success, in order
SpawnSuccesses(msgs) ==
    LET IsSuccess(msg) == msg.role = "tool" /\ msg.content[1].success
        kept == SelectSeq(msgs, IsSuccess)
    IN  [i \in 1..Len(kept) |-> kept[i].content[1]]

\* C31: every spawn_task call that returned success has recorded a child
\* reference: in the checkpoint the loop writes afterwards the child is listed
\* in pendingChildren if it was spawned without wait and in completedChildren
\* if it was spawned with wait.
C31_SpawnsRecorded ==
    [][(ckpt_writes' = ckpt_writes + 1 /\ state_file'.kind = "json_object") =>
          \A i \in 1..Len(SpawnSuccesses(messages)) :
              LET spawn == SpawnSuccesses(messages)[i] IN
              IF spawn.async
              THEN spawn.task_name \in NamesIn(state_file'.data.pendingChildren)
              ELSE spawn.task_name \in NamesIn(state_file'.data.completedChildren)]_vars

(***************************************************************************)
(* C32                                                                     *)
(***************************************************************************)
\* main hands the conversation to the loop
LoopEntered == pc = "init" /\ pc' = "top"

Lists(text, line) == \E i \in 1..Len(text) : text[i] = line

\* the system prompt lists the tools of the descriptor's capabilities
FreshSystemPrompt(msg, descriptor) ==
    /\ msg.role = "system"
    /\ Lists(msg.content, "read_file")
    /\ Lists(msg.content, "write_file")
    /\ Lists(msg.content, "spawn_task") <=> "spawn" \in descriptor.capabilities
    /\ Lists(msg.content, "run_shell") <=> "shell" \in descriptor.capabilities

\* the kinds of part a resume text is made of
ResumeKinds ==
    {"intro", "plan", "decisions", "context", "new_header", "new_child",
     "prev_header", "prev_child", "outro"}

\* the text opens and closes as a resume text does and holds no part whose
\* text is the prompt
IsResumeText(text, prompt) ==
    /\ Len(text) >= 2
    /\ text[1].kind = "intro"
    /\ text[Len(text)].kind = "outro"
    /\ \A i \in 1..Len(text) :
          /\ text[i].kind \in ResumeKinds
          /\ text[i].kind \in {"plan", "decisions", "context"} => text[i].text # prompt

\* C32: the conversation handed to the loop is exactly two messages: a system
\* prompt made from the current descriptor, then one user message.  When a
\* valid checkpoint was loaded the user message holds the resume text and not
\* the descriptor's prompt; when none was loaded it holds the descriptor's
\* prompt and nothing of the inbox.
C32_TwoMessageConversation ==
    [][LoopEntered =>
          /\ Len(messages') = 2
          /\ FreshSystemPrompt(messages'[1], task)
          /\ messages'[2].role = "user"
          /\ messages'[2].tool_calls = <<>>
          /\ IF checkpoint'.loaded
             THEN IsResumeText(messages'[2].content, task.prompt)
             ELSE messages'[2].content = task.prompt]_vars

\* the loop holds the resume text of a checkpoint written under other
\* capabilities, the child's result having arrived
C32_Witness ==
    /\ pc = "top"
    /\ checkpoint.loaded
    /\ task.capabilities = {}
    /\ child_results # <<>>
    /\ Len(messages) = 2
    /\ \E i \in 1..Len(messages[2].content) : messages[2].content[i].kind = "new_child"

\* the loop holds the prompt, no checkpoint having been loaded beside an inbox
\* that holds a child's result
C32_WitnessFresh ==
    /\ pc = "top"
    /\ ~checkpoint.loaded
    /\ child_results # <<>>
    /\ messages[2].content = task.prompt

(***************************************************************************)
(* C33                                                                     *)
(***************************************************************************)
\* the model call of the iteration has been answered
TurnAnswered == pc = "llm" /\ pc' # "llm" /\ Len(messages') = Len(messages) + 1

\* under SpecReason: the stop reason of the turn just answered
ReasonAnswered == IF total_in' > total_in THEN "length" ELSE "content_filter"

\* C33: a turn whose stop reason is neither a normal stop nor a tool-call stop
\* and that carries no tool call ends the loop: completed with the turn's text
\* when the text is not empty, failed with a message holding the stop reason
\* when it is empty; no checkpoint is written.
C33_OtherStopEndsLoop ==
    [][TurnAnswered =>
          LET turn == messages'[Len(messages')] IN
          /\ pc' = "returned"
          /\ turn.content # <<>> =>
                /\ result'.status = "completed"
                /\ result'.output = [kind |-> "content", text |-> turn.content]
          /\ turn.content = <<>> =>
                /\ result'.status = "failed"
                /\ result'.output = [kind |-> "unexpected_stop",
                                     text |-> <<ReasonAnswered>>]
          /\ state_file' = state_file
          /\ ckpt_writes' = ckpt_writes]_vars

\* the loop has returned failed on a content_filter stop without text
C33_Witness ==
    /\ pc = "returned"
    /\ result.status = "failed"
    /\ result.output = [kind |-> "unexpected_stop", text |-> <<"content_filter">>]
    /\ state_file = MissingFile

(***************************************************************************)
(* C34                                                                     *)
(***************************************************************************)
\* the files the step created or changed
Modified == {q \in DOMAIN fs' : q \notin DOMAIN fs \/ fs'[q] # fs[q]}

\* the dispatch of read_file returned the content of the file at `path`
ReadReturned(path) ==
    /\ pc = "tools" /\ tool_queue # <<>> /\ Head(tool_queue).name = "read_file"
    /\ Len(messages') = Len(messages) + 1
    /\ messages'[Len(messages')].content[1].success
    /\ messages'[Len(messages')].content[1].path = path

\* C34: write_file modifies only files located under /outbox/, /workspace/ or
\* /memory/, and read_file returns only the content of files located under the
\* five read roots, for every path string, `..` segments after an allowed
\* prefix included.
C34_FileToolsStayUnderRoots ==
    [][/\ \A q \in Modified : AnyPrefix(q, ALLOWED_WRITE_PREFIXES)
       /\ \A path \in ToolPaths :
             ReadReturned(path) => AnyPrefix(Located(path), ALLOWED_READ_PREFIXES)]_vars

C36_OneCallAfterSignal ==
    [][killed =>
          /\ calls' <= calls
          /\ pc = "llm" => signal_at = "llm"
          /\ pc = "top" => pc' = "returned" /\ result'.output.kind \in SuspensionExits]_vars

\* the signal arrived during a model call, the answer asked for tools, they
\* were dispatched, and the loop returned at the next top of iteration
C36_Witness ==
    /\ pc = "returned"
    /\ killed
    /\ signal_at = "llm"
    /\ calls = 1
    /\ dispatched > 0
    /\ result.output.kind = "killed"

(***************************************************************************)
(* C37                                                                     *)
(***************************************************************************)
\* under SpecStopCalls: the message is a turn that ended with a normal stop
\* and carries tool-call requests
IsStopTurnWithCalls(msg) ==
    /\ msg.role = "assistant"
    /\ msg.tool_calls # <<>>
    /\ msg.tool_calls[1].id >= 2

\* C37: a turn whose stop reason is a normal stop ends the run as completed
\* even when it carries tool-call requests: the loop returns completed with
\* the turn's text in the step that takes the answer, nothing is queued or
\* dispatched for the requests, and no tool message ever answers them.
C37_StopWithCallsCompletes ==
    [][/\ (TurnAnswered /\ IsStopTurnWithCalls(messages'[Len(messages')])) =>
              /\ pc' = "returned"
              /\ result'.status = "completed"
              /\ result'.output = [kind |-> "content",
                                   text |-> messages'[Len(messages')].content]
              /\ tool_queue' = <<>>
              /\ dispatched' = dispatched
       /\ (messages # <<>> /\ IsStopTurnWithCalls(messages[Len(messages)])) =>
              /\ messages' = messages
              /\ dispatched' = dispatched
              /\ pc' \in {"returned", "exited"}
       /\ \A i \in 1..Len(messages') :
              messages'[i].role = "tool" => messages'[i].tool_call_id = 1]_vars

\* the process has exited completed after a normal stop that asked for two
\* tools, an earlier turn's request having been dispatched
C37_Witness ==
    /\ pc = "exited"
    /\ result_file.status = "completed"
    /\ dispatched = 1
    /\ Len(messages[Len(messages)].tool_calls) = 2
    /\ messages[Len(messages)].tool_calls[1].id = 2

(***************************************************************************)
(* C38                                                                     *)
(***************************************************************************)
\* some part of the text names the child
NamesChild(text, name) == \E i \in 1..Len(text) : text[i].name = name

NoCeilingBudget(raw) ==
    \/ raw.kind = "absent"
    \/ raw.kind = "int" /\ raw.n = 0
    \/ raw.kind = "str" /\ (~raw.parses \/ raw.n = 0)

\* C39: a budget whose maxTokens is absent, 0, or a string that is no integer
\* imposes no token ceiling: the loop never returns budget_exceeded, and the
\* top of an iteration goes on to the model call whatever the tokens used,
\* unless the flag is set or the iteration ceiling is reached.
C39_NoCeilingWithoutBudget ==
    [][NoCeilingBudget(task.budget) =>
          /\ pc' = "returned" =>
                result'.status # "budget_exceeded" /\ result'.output.kind # "budget"
          /\ (pc = "top" /\ pc' # "top") =>
                \/ pc' = "llm"
                \/ killed /\ result'.output.kind = "killed"
                \/ iteration >= MAX_ITERATIONS
                   /\ result'.output.kind = "iteration_limit"]_vars

\* under a maxTokens that is no integer the loop has made a further model call
\* with tokens already used
C39_Witness ==
    /\ task.budget = BadStrBudget
    /\ pc = "llm"
    /\ calls = 2
    /\ total_in + total_out >= 2

(***************************************************************************)
(* C40                                                                     *)
(***************************************************************************)
\* C40: no step of the loop adds to the decision log: every checkpoint the
\* loop has written holds an empty decisions list, every result record
\* reports 0 decisions, and the resume text built from such a checkpoint has
\* no part that replays decisions.
C40_NoDecisionEverLogged ==
    /\ decisions = <<>>
    /\ state_file.kind = "json_object" => state_file.data.decisions = <<>>
    /\ checkpoint.loaded => checkpoint.data.decisions = <<>>
    /\ result_file.written => result_file.decisions = 0
    /\ \A i \in 1..Len(resume_context) : resume_context[i].kind # "decisions"

\* a second lifetime has resumed from the checkpoint of a first one that had
\* spawned a child and written its result record
C40_Witness ==
    /\ life = 2
    /\ pc = "top"
    /\ checkpoint.loaded
    /\ checkpoint.data.pendingChildren # <<>>
    /\ resume_context # <<>>
    /\ result_file.written
====
